---- MODULE Spec2Model ----
(***************************************************************************)
(* Hybrid Bluetooth manager (nasa_backend): the identity resolver          *)
(* (scan_all_devices), the connection orchestrator (system link and GATT   *)
(* sessions), the characteristic access operations and the battery         *)
(* fallback chain, with the service/repository layer that calls them.      *)
(*                                                                         *)
(* Coroutines run on one asyncio event loop: the code between two awaits   *)
(* is one atomic action of the task that runs it.  Blocking subprocess     *)
(* calls made directly by a coroutine are part of that atomic action.      *)
(***************************************************************************)
EXTENDS Integers, Sequences, FiniteSets, TLC

(***************************************************************************)
(* Bounds                                                                  *)
(***************************************************************************)
NTasks == 2          \* concurrent coroutines (callers)
NDev == 1            \* physical accessories
MaxClients == 3      \* BleakClient objects created in one run
MaxOps == 2          \* operations started in one run
MaxSvc == 2          \* services a device exposes
MaxChars == 2        \* characteristics a device exposes, all services together

Tasks == 1..NTasks
Dev == 1..NDev

(***************************************************************************)
(* Addresses.  A device has a classic (system, MAC) address and a BLE      *)
(* address/UUID; both are plain strings in the code.                       *)
(***************************************************************************)
NoAddr == <<"none", 0>>
Mac(d) == <<"mac", d>>
Ble(d) == <<"ble", d>>
MacAddrs == {Mac(d) : d \in Dev}
BleAddrs == {Ble(d) : d \in Dev}
GattAddrs == MacAddrs \cup BleAddrs
DevOf(a) == a[2]

NoName == "-"
Names == {"Buds", "Pods"}
DefaultName == "Buds"

(***************************************************************************)
(* Results of a call: None, a bool, an int, bytes, or an escaped exception *)
(***************************************************************************)
RNone == [k |-> "none", b |-> FALSE, i |-> 0, p |-> <<>>]
RBool(x) == [k |-> "bool", b |-> x, i |-> 0, p |-> <<>>]
RInt(x) == [k |-> "int", b |-> FALSE, i |-> x, p |-> <<>>]
RBytes(x) == [k |-> "bytes", b |-> FALSE, i |-> 0, p |-> x]
RRaised == [k |-> "raised", b |-> FALSE, i |-> 0, p |-> <<>>]
RDict == [k |-> "dict", b |-> FALSE, i |-> 0, p |-> <<>>]      \* a result dict
RError == [k |-> "error", b |-> FALSE, i |-> 0, p |-> <<>>]    \* a dict with "error"

(***************************************************************************)
(* Outcomes the host can produce                                           *)
(***************************************************************************)
OsOutcomes == {"ok", "fail", "exc"}               \* returncode 0 / non-zero / timeout or exception
ConnectOutcomes == {"ok", "notconn", "timeout", "error"}
CloseOutcomes == {"ok", "error"}

(***************************************************************************)
(* Characteristic identifiers and payload text.  A Python str is a         *)
(* sequence of characters here; "sup2" stands for U+00B2, a character      *)
(* str.isdigit accepts and int() refuses                                   *)
(***************************************************************************)
DecimalDigits == {"0", "1", "2", "3", "4", "5", "6", "7", "8", "9"}
OtherDigits == {"sup2"}

DigitValue(c) ==
  CASE c = "0" -> 0 [] c = "1" -> 1 [] c = "2" -> 2 [] c = "3" -> 3
    [] c = "4" -> 4 [] c = "5" -> 5 [] c = "6" -> 6 [] c = "7" -> 7
    [] c = "8" -> 8 [] OTHER -> 9

\* str.isdigit: not empty and every character a digit
isdigit(s) ==
  /\ Len(s) > 0
  /\ \A i \in 1..Len(s) : s[i] \in DecimalDigits \cup OtherDigits

\* int(s) of a string of decimal digits
RECURSIVE IntOf(_)
IntOf(s) ==
  IF Len(s) = 0 THEN 0
  ELSE 10 * IntOf(SubSeq(s, 1, Len(s) - 1)) + DigitValue(s[Len(s)])

\* what a read or write addresses: a handle, a UUID string, or nothing
\* because int() has raised ValueError
NoAttr == [k |-> "none", n |-> 0, u |-> <<>>]
AttrHandle(n) == [k |-> "handle", n |-> n, u |-> <<>>]
AttrUuid(u) == [k |-> "uuid", n |-> 0, u |-> u]
AttrValueError == [k |-> "ValueError", n |-> 0, u |-> <<>>]

\* the identifiers the calls are made with
BatteryLevelId == <<"2", "a", "1", "9">>
\* the payload of the writes, the byte 0x64
DefaultData == <<100>>
Identifiers == {<<"7">>, <<"0", "7">>, BatteryLevelId, <<"sup2">>, <<>>}
Attrs ==
  {AttrHandle(IntOf(s)) :
     s \in {x \in Identifiers : \A i \in 1..Len(x) : x[i] \in DecimalDigits}}
    \cup {AttrUuid(s) : s \in Identifiers}

\* an attribute nobody has written holds a value the program does not know
Unset == <<-2>>

\* bytes.fromhex from position i on: ASCII whitespace between the bytes is
\* skipped, a byte is two hex digits, anything else is a ValueError
HexDigits ==
  DecimalDigits \cup {"a", "b", "c", "d", "e", "f", "A", "B", "C", "D", "E", "F"}
HexValue(c) ==
  CASE c \in {"a", "A"} -> 10 [] c \in {"b", "B"} -> 11
    [] c \in {"c", "C"} -> 12 [] c \in {"d", "D"} -> 13
    [] c \in {"e", "E"} -> 14 [] c \in {"f", "F"} -> 15
    [] OTHER -> DigitValue(c)

RECURSIVE fromhex(_, _)
fromhex(s, i) ==
  IF i > Len(s) THEN [ok |-> TRUE, bytes |-> <<>>]
  ELSE IF s[i] = " " THEN fromhex(s, i + 1)
  ELSE IF i + 1 <= Len(s) /\ s[i] \in HexDigits /\ s[i + 1] \in HexDigits
  THEN LET rest == fromhex(s, i + 2) IN
       [ok |-> rest.ok,
        bytes |-> <<16 * HexValue(s[i]) + HexValue(s[i + 1])>> \o rest.bytes]
  ELSE [ok |-> FALSE, bytes |-> <<>>]

\* bytes.hex: two hex digits for each byte (a digit is its value 0..15 here)
RECURSIVE hex(_)
hex(p) ==
  IF Len(p) = 0 THEN <<>>
  ELSE <<p[1] \div 16, p[1] % 16>> \o hex(Tail(p))

(***************************************************************************)
(* The hub: the WebSocket endpoint /ws/windows, ConnectionManager and      *)
(* ActionMapper                                                            *)
(***************************************************************************)
NSockets == 3        \* sockets that connect to /ws/windows
MaxMsgs == 2         \* schema-valid messages counted
MaxUpdates == 1      \* changes made to the mapper's settings

Sockets == 1..NSockets

\* the fields PredictionMessage declares and those without a default
PredictionFields == {"type", "result", "timestamp", "metadata"}
RequiredFields == {"result", "timestamp"}

\* what receive_text delivers: the keys of a JSON object, text that is no
\* JSON, or WebSocketDisconnect
JsonObject(keys) == [k |-> "json", keys |-> keys]
NotJson == [k |-> "text", keys |-> {}]
ClientGone == [k |-> "disconnect", keys |-> {}]
Incoming ==
  {JsonObject({"result", "timestamp"}),
   JsonObject({"type", "result", "timestamp", "detected_action", "confidence"}),
   JsonObject({"timestamp"}),
   NotJson, ClientGone}

\* PredictionMessage(**message_dict): every required field is there
SchemaValid(m) == m.k = "json" /\ RequiredFields \subseteq m.keys

\* the attributes of the validated model object: the declared fields; keys
\* of the JSON object that the model does not declare are dropped
Attributes(m) == PredictionFields

\* ActionMapper: the ids with a mapping, the actions and the confidence in
\* hundredths
ActionIds == 0..3
SpeakerActions == {"None", "play_alert", "play_normal", "stop", ""}
PhoneActions == {"None", "notify", "vibrate", ""}
DefaultMappings ==
  [a \in ActionIds |->
     CASE a = 0 -> [speaker |-> "None", phone |-> "None"]
       [] a = 1 -> [speaker |-> "play_alert", phone |-> "notify"]
       [] a = 2 -> [speaker |-> "play_normal", phone |-> "notify"]
       [] OTHER -> [speaker |-> "None", phone |-> "notify"]]
DetectedActions == {0, 1, 2, 3, 4}
Confidences == {0, 49, 50, 100}
Thresholds == {0, 50, 90}

\* truthiness of a mapped action: None and the empty string are false
Truthy(x) == x \notin {"None", ""}

ProcessAndExecute_PhoneFirst(M, th, a, c) ==
  IF c < th THEN <<>>
  ELSE IF a \notin DOMAIN M THEN <<>>
  ELSE (IF Truthy(M[a].phone) THEN <<<<"phone", M[a].phone>>>> ELSE <<>>)
       \o (IF Truthy(M[a].speaker) THEN <<<<"speaker", M[a].speaker>>>> ELSE <<>>)

\* process_and_execute, lines 81-143: the list of actions taken, an entry
\* f"speaker:{action}" written <<"speaker", action>>
ProcessAndExecute(M, th, a, c) ==
  IF c < th THEN <<>>
  ELSE IF a \notin DOMAIN M THEN <<>>
  ELSE (IF Truthy(M[a].speaker) THEN <<<<"speaker", M[a].speaker>>>> ELSE <<>>)
       \o (IF Truthy(M[a].phone) THEN <<<<"phone", M[a].phone>>>> ELSE <<>>)

NoCall == [called |-> FALSE, action |-> 0, confidence |-> 0, result |-> <<>>]

VARIABLES
  sysLink,            \* host: classic link of each device is up
  clients,            \* every BleakClient created so far: [addr, open]
  connected_clients,  \* manager: address -> client id (0: no entry)
  device_names,       \* manager: address -> name (NoName: no entry)
  known_devices,      \* manager: address -> name (NoName: no entry)
  known_devices_file, \* host: the map load_known_devices reads from the file
  connected_devices,  \* repository: registry of system-connected addresses
  pc,                 \* position of each task
  fr,                 \* locals of each task's running call
  calls,              \* per task: external calls issued by the running call
  nOps,               \* operations started so far
  scan_pc,            \* position of the scan_all_devices call
  host_paired,        \* host: what `blueutil --paired` answered to the scan
  ble_rc,             \* host: how the BLE scan of the pass ended
  paired,             \* scan_all_devices: list get_paired_devices returned
  ble_devices,        \* scan_all_devices: list scan_ble_devices returned
  all_devices,        \* scan_all_devices: list it returned
  heap,               \* every record (dict object) created so far
  scan_ids,           \* the objects in the lists of the running pass
  first_pass,         \* the catalog an earlier pass returned to its caller
  proc,               \* the process: constructing the manager, running, exited
  gatt_db,            \* accessories: the value each written attribute holds
  windows_clients,    \* ConnectionManager: the list of registered sockets
  windows_connected,  \* ConnectionManager: connection_info.windows_connected
  total_messages,     \* ConnectionManager: connection_info.total_messages
  ws,                 \* endpoint of each socket: position, valid messages
                      \* received, responses sent, what was received last
  action_mappings,    \* ActionMapper: speaker and phone action of each id
  confidence_threshold, \* ActionMapper: the threshold, in hundredths
  mapper_out,         \* the last call of process_and_execute and its result
  nUpdates            \* number of setting changes made

hostVars == <<sysLink, clients>>
mgrVars == <<connected_clients, device_names, known_devices, known_devices_file>>
taskVars == <<pc, fr, calls, nOps>>
scanVars == <<scan_pc, host_paired, ble_rc, paired, ble_devices, all_devices,
              heap, scan_ids, first_pass>>
envVars == <<proc, gatt_db>>
hubVars == <<windows_clients, windows_connected, total_messages, ws,
            action_mappings, confidence_threshold, mapper_out, nUpdates>>
vars == <<sysLink, clients, connected_clients, device_names, known_devices,
          known_devices_file,
          connected_devices, pc, fr, calls, nOps, scan_pc, host_paired,
          ble_rc, paired, ble_devices, all_devices, heap, scan_ids,
          first_pass, proc, gatt_db, windows_clients, windows_connected,
          total_messages, ws, action_mappings, confidence_threshold,
          mapper_out, nUpdates>>

IdleFrame ==
  [op |-> "none", address |-> NoAddr, ble |-> NoAddr, flag |-> FALSE,
   name |-> NoName, target |-> NoAddr, client |-> 0, services |-> <<>>,
   ph |-> 0, si |-> 0, ci |-> 0, val |-> <<>>, ok |-> FALSE, ret |-> RNone,
   seen |-> {}, uuid |-> <<>>, data |-> <<>>, hexdata |-> <<>>,
   via |-> "manager", svc |-> RNone]

\* one external call (or its outcome) in the log of a running call
Ev(e) == [e |-> e, h |-> 0, p |-> <<>>, at |-> NoAttr]
EvRead(e, h, p) == [e |-> e, h |-> h, p |-> p, at |-> NoAttr]
EvAttr(e, at, p) == [e |-> e, h |-> 0, p |-> p, at |-> at]
Log(t, es) == calls' = [calls EXCEPT ![t] = calls[t] \o es]

\* the state a fresh manager and repository start from, the process and
\* the known-devices file apart
InitObjects ==
  /\ sysLink = [d \in Dev |-> FALSE]
  /\ clients = <<>>
  /\ connected_clients = [a \in GattAddrs |-> 0]
  /\ device_names = [a \in GattAddrs |-> NoName]
  /\ known_devices = [a \in MacAddrs |-> NoName]
  /\ connected_devices = {}
  /\ pc = [t \in Tasks |-> "idle"]
  /\ fr = [t \in Tasks |-> IdleFrame]
  /\ calls = [t \in Tasks |-> <<>>]
  /\ nOps = 0
  /\ scan_pc = "idle"
  /\ host_paired = [rc |-> "fail", lines |-> <<>>]
  /\ ble_rc = "none"
  /\ paired = <<>>
  /\ ble_devices = <<>>
  /\ all_devices = <<>>
  /\ heap = <<>>
  /\ scan_ids = [paired |-> <<>>, catalog |-> <<>>]
  /\ first_pass = [n |-> 0, ids |-> <<>>, devices |-> <<>>, paired |-> <<>>,
                   ble |-> <<>>]
  /\ gatt_db = [d \in Dev |-> [at \in Attrs |-> Unset]]
  /\ windows_clients = <<>>
  /\ windows_connected = FALSE
  /\ total_messages = 0
  /\ ws = [s \in Sockets |-> [pc |-> "new", valid |-> 0, sent |-> 0, last |-> "-"]]
  /\ action_mappings = DefaultMappings
  /\ confidence_threshold = 50
  /\ mapper_out = NoCall
  /\ nUpdates = 0

\* the manager has been constructed on a host with every tool and without
\* a known-devices file
Init ==
  /\ InitObjects
  /\ known_devices_file = [a \in MacAddrs |-> NoName]
  /\ proc = "running"

\* the process starts: the manager is about to be constructed, the file
\* holds any map (none when it is missing or unreadable)
InitStartup ==
  /\ InitObjects
  /\ known_devices_file \in [MacAddrs -> Names \cup {NoName}]
  /\ proc = "constructing"

\* the tools check_dependencies looks for with `which`
Tools == {"blueutil", "SwitchAudioSource", "nowplaying-cli"}

\* __init__ (lines 27-35): the map is loaded from the file, the session and
\* name maps are empty; check_dependencies (lines 37-62) ends the process
\* with sys.exit(1) when a tool is missing
BluetoothHybridManager_init ==
  /\ proc = "constructing"
  /\ known_devices' = known_devices_file
  /\ \E installed \in SUBSET Tools :
       proc' = IF Tools \ installed # {} THEN "exited" ELSE "running"
  /\ UNCHANGED <<hostVars, connected_clients, device_names, known_devices_file,
               connected_devices, taskVars, scanVars, gatt_db, hubVars>>

(***************************************************************************)
(* Helpers                                                                 *)
(***************************************************************************)
IsOpen(c) == c # 0 /\ clients[c].open

\* task t runs no call
Free(t) == pc[t] = "idle"

\* a call starts: the task is free and the run has operations left.  Tasks
\* are interchangeable, so a new call takes the lowest free task.
CanStart(t) ==
  /\ proc = "running"
  /\ Free(t)
  /\ nOps < MaxOps
  /\ \A u \in Tasks : u < t => ~Free(u)

\* the frame of a call that starts
NewFrame(o, address, ble, flag, name) ==
  [IdleFrame EXCEPT !.op = o, !.address = address, !.ble = ble,
                    !.flag = flag, !.name = name]

\* a hex string, as bytes.hex builds it
RHex(x) == [k |-> "hex", b |-> FALSE, i |-> 0, p |-> x]
\* the ValueError of a request whose data is no hex string
RInvalid == [k |-> "invalid", b |-> FALSE, i |-> 0, p |-> <<>>]

\* BluetoothService.read_gatt_characteristic, lines 87-89:
\* `if data: return data.hex()`, else None
ServiceReadResult(r) ==
  IF r.k = "bytes" /\ Len(r.p) > 0 THEN RHex(hex(r.p)) ELSE RNone

\* what the service layer returns for the manager's result r when the call
\* came through it: the hex string of a read, the bool of a write
ServiceResult(f, r) ==
  IF f.via # "service" THEN RNone
  ELSE IF f.op = "read_gatt_characteristic" THEN ServiceReadResult(r)
  ELSE r

\* the call of task t returns r: its arguments and result stay visible
\* until the task starts its next call, its other locals are gone
Finish(t, r) ==
  /\ pc' = [pc EXCEPT ![t] = "done"]
  /\ fr' = [fr EXCEPT ![t] =
              [IdleFrame EXCEPT !.op = fr[t].op, !.address = fr[t].address,
                                !.ble = fr[t].ble, !.flag = fr[t].flag,
                                !.target = fr[t].target, !.val = fr[t].val,
                                !.services = fr[t].services, !.ret = r,
                                !.uuid = fr[t].uuid, !.data = fr[t].data,
                                !.hexdata = fr[t].hexdata, !.via = fr[t].via,
                                !.svc = ServiceResult(fr[t], r)]]

\* the caller has taken the result; the task is free again
Return(t) ==
  /\ pc[t] = "done"
  /\ pc' = [pc EXCEPT ![t] = "idle"]
  /\ fr' = [fr EXCEPT ![t] = IdleFrame]
  /\ calls' = [calls EXCEPT ![t] = <<>>]
  /\ UNCHANGED <<hostVars, mgrVars, scanVars, envVars, hubVars, connected_devices, nOps>>

\* a cached session drops without the program closing it (is_connected of
\* a client is consulted again only for the clients in the session map)
Drop(c) ==
  /\ c \in 1..Len(clients)
  /\ clients[c].open
  /\ \E a \in GattAddrs : connected_clients[a] = c
  /\ clients' = [clients EXCEPT ![c].open = FALSE]
  /\ UNCHANGED <<sysLink, mgrVars, scanVars, envVars, hubVars, connected_devices, taskVars>>

(***************************************************************************)
(* connect_device_system / disconnect_device_system (blocking subprocess)  *)
(***************************************************************************)
\* blueutil --connect: the link is up when the command exits with 0
OsConnect(address, rc) ==
  IF rc = "ok" THEN [sysLink EXCEPT ![DevOf(address)] = TRUE] ELSE sysLink

\* blueutil --disconnect: the link is down when the command exits with 0
OsDisconnect(address, rc) ==
  IF rc = "ok" THEN [sysLink EXCEPT ![DevOf(address)] = FALSE] ELSE sysLink

\* the outcome of a host command, as the log of a call shows it
OsEvent(rc) ==
  CASE rc = "ok" -> Ev("os_ok") [] rc = "fail" -> Ev("os_fail")
    [] OTHER -> Ev("os_exc")

\* save_known_devices: the file is rewritten with the map; the file is as it
\* was when it cannot be opened, and unreadable (loaded as the empty map)
\* when the write fails after the file was truncated
SaveOutcomes == {"ok", "unwritten", "truncated"}
SaveEvent(wr) ==
  CASE wr = "ok" -> Ev("save_ok") [] wr = "unwritten" -> Ev("save_unwritten")
    [] OTHER -> Ev("save_truncated")

save_known_devices_Skipped(kd, wr) == known_devices_file

save_known_devices(kd, wr) ==
  CASE wr = "ok" -> kd
    [] wr = "unwritten" -> known_devices_file
    [] OTHER -> [a \in MacAddrs |-> NoName]

KnownAfterConnect_RecordsFirst(address, name, rc) ==
  [known_devices EXCEPT ![address] = name]

\* lines 284-288: the name is recorded when the command has exited with 0
KnownAfterConnect(address, name, rc) ==
  IF rc = "ok" THEN [known_devices EXCEPT ![address] = name]
  ELSE known_devices

\* the calls connect_device_system issues: the command, and the save after
\* a success
ConnectCalls(rc, wr) ==
  <<Ev("sys_connect"), OsEvent(rc)>>
    \o (IF rc = "ok" THEN <<Ev("save"), SaveEvent(wr)>> ELSE <<>>)

connect_device_system(t, address, name) ==
  /\ CanStart(t)
  /\ nOps' = nOps + 1
  /\ \E rc \in OsOutcomes, wr \in SaveOutcomes :
       /\ sysLink' = OsConnect(address, rc)
       /\ known_devices' = KnownAfterConnect(address, name, rc)
       /\ known_devices_file' =
            IF rc = "ok"
            THEN save_known_devices(KnownAfterConnect(address, name, rc), wr)
            ELSE known_devices_file
       /\ calls' = [calls EXCEPT ![t] = ConnectCalls(rc, wr)]
       /\ pc' = [pc EXCEPT ![t] = "done"]
       /\ fr' = [fr EXCEPT ![t] =
                   [NewFrame("connect_device_system", address, NoAddr, FALSE, name)
                      EXCEPT !.ret = RBool(rc = "ok")]]
  /\ UNCHANGED <<clients, connected_clients, device_names, connected_devices,
               scanVars, envVars, hubVars>>

DisconnectResult_RequiresLink(address, rc) ==
  IF sysLink[DevOf(address)] THEN RBool(rc = "ok") ELSE RRaised

\* lines 392-411: true when the command has exited with 0, false otherwise
DisconnectResult(address, rc) == RBool(rc = "ok")

disconnect_device_system(t, address, name) ==
  /\ CanStart(t)
  /\ nOps' = nOps + 1
  /\ \E rc \in OsOutcomes :
       /\ sysLink' = OsDisconnect(address, rc)
       /\ calls' = [calls EXCEPT ![t] = <<Ev("sys_disconnect"), OsEvent(rc)>>]
       /\ pc' = [pc EXCEPT ![t] = "done"]
       /\ fr' = [fr EXCEPT ![t] =
                   [NewFrame("disconnect_device_system", address, NoAddr, FALSE, name)
                      EXCEPT !.ret = DisconnectResult(address, rc)]]
  /\ UNCHANGED <<clients, mgrVars, scanVars, envVars, hubVars, connected_devices>>

(***************************************************************************)
(* connect_device_gatt / disconnect_device_gatt (the cached sessions)      *)
(***************************************************************************)
\* BleakClient(address): a new client object, not connected yet
NewClient(address) == Append(clients, [addr |-> address, open |-> FALSE])

\* mutant: the cached session is not consulted, a connect is always issued
connect_device_gatt_AlwaysReconnect(t, address, name) ==
  /\ CanStart(t)
  /\ nOps' = nOps + 1
  /\ Len(clients) < MaxClients
  /\ clients' = NewClient(address)
  /\ pc' = [pc EXCEPT ![t] = "cg_connecting"]
  /\ fr' = [fr EXCEPT ![t] =
              [NewFrame("connect_device_gatt", address, NoAddr, FALSE, name)
                 EXCEPT !.client = Len(clients) + 1]]
  /\ calls' = [calls EXCEPT ![t] = <<Ev("gatt_connect")>>]
  /\ UNCHANGED <<sysLink, mgrVars, scanVars, envVars, hubVars, connected_devices>>

\* mutant: a per-address lock: no call passes the check while a connect
\* for the same address is in flight
connect_device_gatt_Locked(t, address, name) ==
  /\ CanStart(t)
  /\ \A u \in Tasks : ~(pc[u] = "cg_connecting" /\ fr[u].address = address)
  /\ nOps' = nOps + 1
  /\ Len(clients) < MaxClients
  /\ connected_clients' = [connected_clients EXCEPT ![address] = 0]
  /\ device_names' = [device_names EXCEPT ![address] = NoName]
  /\ clients' = NewClient(address)
  /\ pc' = [pc EXCEPT ![t] = "cg_connecting"]
  /\ fr' = [fr EXCEPT ![t] =
              [NewFrame("connect_device_gatt", address, NoAddr, FALSE, name)
                 EXCEPT !.client = Len(clients) + 1]]
  /\ calls' = [calls EXCEPT ![t] = <<Ev("gatt_connect")>>]
  /\ UNCHANGED <<sysLink, known_devices, known_devices_file, scanVars, envVars, hubVars, connected_devices>>

\* lines 306-319: the cached-session check, then the connect is awaited
connect_device_gatt(t, address, name) ==
  /\ CanStart(t)
  /\ nOps' = nOps + 1
  /\ LET f == NewFrame("connect_device_gatt", address, NoAddr, FALSE, name) IN
     IF connected_clients[address] # 0 /\ IsOpen(connected_clients[address])
     THEN /\ pc' = [pc EXCEPT ![t] = "done"]
          /\ fr' = [fr EXCEPT ![t] = [f EXCEPT !.ret = RBool(TRUE)]]
          /\ calls' = [calls EXCEPT ![t] = <<>>]
          /\ UNCHANGED <<clients, connected_clients, device_names>>
     ELSE /\ Len(clients) < MaxClients
          /\ connected_clients' = [connected_clients EXCEPT ![address] = 0]
          /\ device_names' = IF connected_clients[address] # 0
                             THEN [device_names EXCEPT ![address] = NoName]
                             ELSE device_names
          /\ clients' = NewClient(address)
          /\ pc' = [pc EXCEPT ![t] = "cg_connecting"]
          /\ fr' = [fr EXCEPT ![t] = [f EXCEPT !.client = Len(clients) + 1]]
          /\ calls' = [calls EXCEPT ![t] = <<Ev("gatt_connect")>>]
  /\ UNCHANGED <<sysLink, known_devices, known_devices_file, scanVars, envVars, hubVars, connected_devices>>

\* mutant: the client is cached before its connect is known to have worked
connect_device_gatt_done_CachesFirst(t) ==
  /\ pc[t] = "cg_connecting"
  /\ connected_clients' =
       [connected_clients EXCEPT ![fr[t].address] = fr[t].client]
  /\ device_names' = [device_names EXCEPT ![fr[t].address] = fr[t].name]
  /\ \E out \in ConnectOutcomes :
       IF out = "ok"
       THEN /\ clients' = [clients EXCEPT ![fr[t].client].open = TRUE]
            /\ Finish(t, RBool(TRUE))
            /\ UNCHANGED calls
       ELSE /\ UNCHANGED clients
            /\ Finish(t, RBool(FALSE))
            /\ Log(t, <<Ev("connect_failed")>>)
  /\ UNCHANGED <<sysLink, known_devices, known_devices_file, scanVars, envVars, hubVars,
               connected_devices, nOps>>

\* lines 319-345: the connect completes (the client is cached) or fails
\* (is_connected false, a timeout, any other exception: False, no entry)
connect_device_gatt_done(t) ==
  /\ pc[t] = "cg_connecting"
  /\ \E out \in ConnectOutcomes :
       IF out = "ok"
       THEN /\ clients' = [clients EXCEPT ![fr[t].client].open = TRUE]
            /\ connected_clients' =
                 [connected_clients EXCEPT ![fr[t].address] = fr[t].client]
            /\ device_names' = [device_names EXCEPT ![fr[t].address] = fr[t].name]
            /\ Finish(t, RBool(TRUE))
            /\ UNCHANGED calls
       ELSE /\ UNCHANGED <<clients, connected_clients, device_names>>
            /\ Finish(t, RBool(FALSE))
            /\ Log(t, <<Ev("connect_failed")>>)
  /\ UNCHANGED <<sysLink, known_devices, known_devices_file, scanVars, envVars, hubVars,
               connected_devices, nOps>>

\* lines 373-381: no entry is a no-op; a live client is disconnected first
disconnect_device_gatt(t, address) ==
  /\ CanStart(t)
  /\ nOps' = nOps + 1
  /\ LET f == NewFrame("disconnect_device_gatt", address, NoAddr, FALSE, NoName)
         c == connected_clients[address] IN
     IF c = 0
     THEN /\ pc' = [pc EXCEPT ![t] = "done"]
          /\ fr' = [fr EXCEPT ![t] = f]
          /\ calls' = [calls EXCEPT ![t] = <<>>]
          /\ UNCHANGED <<connected_clients, device_names>>
     ELSE IF IsOpen(c)
     THEN /\ pc' = [pc EXCEPT ![t] = "dg_closing"]
          /\ fr' = [fr EXCEPT ![t] = [f EXCEPT !.client = c]]
          /\ calls' = [calls EXCEPT ![t] = <<Ev("gatt_close")>>]
          /\ UNCHANGED <<connected_clients, device_names>>
     ELSE /\ connected_clients' = [connected_clients EXCEPT ![address] = 0]
          /\ device_names' = [device_names EXCEPT ![address] = NoName]
          /\ pc' = [pc EXCEPT ![t] = "done"]
          /\ fr' = [fr EXCEPT ![t] = f]
          /\ calls' = [calls EXCEPT ![t] = <<>>]
  /\ UNCHANGED <<hostVars, known_devices, known_devices_file, scanVars, envVars, hubVars, connected_devices>>

\* mutant: an exception of the transport disconnect leaves the entries
disconnect_device_gatt_done_KeepsOnError(t) ==
  /\ pc[t] = "dg_closing"
  /\ \E out \in CloseOutcomes :
       IF out = "ok"
       THEN /\ clients' = [clients EXCEPT ![fr[t].client].open = FALSE]
            /\ connected_clients' = [connected_clients EXCEPT ![fr[t].address] = 0]
            /\ device_names' = [device_names EXCEPT ![fr[t].address] = NoName]
            /\ Finish(t, RNone)
       ELSE /\ UNCHANGED <<clients, connected_clients, device_names>>
            /\ Finish(t, RNone)
  /\ UNCHANGED <<sysLink, known_devices, known_devices_file, scanVars, envVars, hubVars,
               connected_devices, calls, nOps>>

\* lines 381-388: after the awaited disconnect the entries are deleted;
\* del raises KeyError when another task removed the entry meanwhile
disconnect_device_gatt_done(t) ==
  /\ pc[t] = "dg_closing"
  /\ \E out \in CloseOutcomes :
       clients' = IF out = "ok"
                  THEN [clients EXCEPT ![fr[t].client].open = FALSE]
                  ELSE clients
  /\ IF connected_clients[fr[t].address] = 0
     THEN /\ Finish(t, RRaised)
          /\ UNCHANGED <<connected_clients, device_names>>
     ELSE /\ connected_clients' = [connected_clients EXCEPT ![fr[t].address] = 0]
          /\ device_names' = [device_names EXCEPT ![fr[t].address] = NoName]
          /\ Finish(t, RNone)
  /\ UNCHANGED <<sysLink, known_devices, known_devices_file, scanVars, envVars, hubVars,
               connected_devices, calls, nOps>>

(***************************************************************************)
(* The GATT services of a device as a connected client enumerates them     *)
(***************************************************************************)
BATTERY_SERVICE_UUID == "180f"
BATTERY_LEVEL_CHAR_UUID == "2a19"
OTHER_SERVICE_UUID == "ffe0"
OTHER_CHAR_UUID == "ffe1"

\* the handle of characteristic ci of service si
Handle(si, ci) == 10 * si + ci

Chr(u, pr) == [uuid |-> u, props |-> pr]
Svc(u, cs) == [uuid |-> u, chars |-> cs]

\* what a read can yield: a rejection (exception) or a payload
Rejected == <<-1>>
Payloads == {<<>>, <<200>>, <<37, 200>>}
ReadOutcomes == {Rejected} \cup Payloads

(***************************************************************************)
(* The sequence every GATT-using call of the manager starts with           *)
(* (read, write, list, battery: the same lines in each)                    *)
(***************************************************************************)
\* target_address = ble_address if ble_address else address
TargetAddress(address, ble) == IF ble # NoAddr THEN ble ELSE address

\* BleakClient(target) is created and its connect awaited
OpenTemp(t, f, connecting, es) ==
  /\ Len(clients) < MaxClients
  /\ clients' = NewClient(f.target)
  /\ fr' = [fr EXCEPT ![t] = [f EXCEPT !.client = Len(clients) + 1]]
  /\ pc' = [pc EXCEPT ![t] = connecting]
  /\ calls' = [calls EXCEPT ![t] = es \o <<Ev("gatt_connect")>>]

\* mutant: the connect is issued right after the disconnect, without the
\* settle delay
TeardownThenConnect_NoSettle(t, f, pre, settling, connecting) ==
  IF f.flag
  THEN /\ \E rc \in OsOutcomes : sysLink' = OsDisconnect(f.address, rc)
       /\ OpenTemp(t, f, connecting, pre \o <<Ev("sys_disconnect")>>)
  ELSE /\ OpenTemp(t, f, connecting, pre)
       /\ UNCHANGED sysLink

\* if is_connected: disconnect_device_system(address, name); await sleep(2)
\* and then, or at once when not flagged, the GATT connect
TeardownThenConnect(t, f, pre, settling, connecting) ==
  IF f.flag
  THEN /\ \E rc \in OsOutcomes : sysLink' = OsDisconnect(f.address, rc)
       /\ fr' = [fr EXCEPT ![t] = f]
       /\ pc' = [pc EXCEPT ![t] = settling]
       /\ calls' = [calls EXCEPT ![t] = pre \o <<Ev("sys_disconnect")>>]
       /\ UNCHANGED clients
  ELSE /\ OpenTemp(t, f, connecting, pre)
       /\ UNCHANGED sysLink

\* mutant: after the settle delay the call gives up when the system link is
\* still up
Settled_ChecksLink(t, settling, connecting) ==
  /\ pc[t] = settling
  /\ IF sysLink[DevOf(fr[t].address)]
     THEN /\ Finish(t, RNone)
          /\ Log(t, <<Ev("settle")>>)
          /\ UNCHANGED clients
     ELSE OpenTemp(t, fr[t], connecting, calls[t] \o <<Ev("settle")>>)
  /\ UNCHANGED <<sysLink, mgrVars, scanVars, envVars, hubVars, connected_devices, nOps>>

\* the settle delay is over: the GATT connect is issued
Settled(t, settling, connecting) ==
  /\ pc[t] = settling
  /\ OpenTemp(t, fr[t], connecting, calls[t] \o <<Ev("settle")>>)
  /\ UNCHANGED <<sysLink, mgrVars, scanVars, envVars, hubVars, connected_devices, nOps>>

\* await client.connect() is over.  ok: the session is open and the call
\* goes on at `io`; is_connected false, a timeout or an error: the call
\* returns failRet (no disconnect is issued on these paths)
TempConnected(t, connecting, io, failRet) ==
  /\ pc[t] = connecting
  /\ \E out \in ConnectOutcomes :
       IF out = "ok"
       THEN /\ clients' = [clients EXCEPT ![fr[t].client].open = TRUE]
            /\ pc' = [pc EXCEPT ![t] = io]
            /\ Log(t, <<Ev("connected")>>)
            /\ UNCHANGED fr
       ELSE /\ Finish(t, failRet)
            /\ Log(t, <<Ev("connect_failed")>>)
            /\ UNCHANGED clients
  /\ UNCHANGED <<sysLink, mgrVars, scanVars, envVars, hubVars, connected_devices, nOps>>

\* await client.disconnect() on client c: closed, or an exception
\* (after which the session may or may not be open)
CloseClient(c, out) ==
  IF out = "ok" THEN {[clients EXCEPT ![c].open = FALSE]}
  ELSE {clients, [clients EXCEPT ![c].open = FALSE]}

(***************************************************************************)
(* read_gatt_characteristic                                                *)
(***************************************************************************)
\* lines 667-673: digits only: the handle int(uuid); else the UUID string
ReadTarget(uuid) ==
  IF isdigit(uuid)
  THEN IF \A i \in 1..Len(uuid) : uuid[i] \in DecimalDigits
       THEN AttrHandle(IntOf(uuid)) ELSE AttrValueError
  ELSE AttrUuid(uuid)

\* what the accessory can answer to a read of an attribute: a rejection,
\* the value it holds, any value when the program has not written one
DeviceAnswers(d, at) ==
  {Rejected} \cup (IF gatt_db[d][at] = Unset THEN Payloads ELSE {gatt_db[d][at]})

read_gatt_characteristic(t, address, uuid, name, ble, flag) ==
  /\ CanStart(t)
  /\ nOps' = nOps + 1
  /\ TeardownThenConnect(t,
       [NewFrame("read_gatt_characteristic", address, ble, flag, name)
          EXCEPT !.target = TargetAddress(address, ble), !.uuid = uuid],
       <<>>, "rd_settling", "rd_connecting")
  /\ UNCHANGED <<mgrVars, scanVars, envVars, hubVars, connected_devices>>

read_settled(t) == Settled(t, "rd_settling", "rd_connecting")

read_connected(t) == TempConnected(t, "rd_connecting", "rd_io", RNone)

\* lines 664-686: the read returns a value or raises; either way the
\* session is then closed
read_io(t) ==
  /\ pc[t] = "rd_io"
  /\ LET at == ReadTarget(fr[t].uuid) IN
     IF at = AttrValueError
     THEN /\ pc' = [pc EXCEPT ![t] = "rd_closing_err"]
          /\ Log(t, <<Ev("bad_handle"), Ev("gatt_close")>>)
          /\ UNCHANGED fr
     ELSE \E r \in DeviceAnswers(DevOf(fr[t].target), at) :
       IF r = Rejected
       THEN /\ pc' = [pc EXCEPT ![t] = "rd_closing_err"]
            /\ Log(t, <<EvAttr("read_rej", at, <<>>), Ev("gatt_close")>>)
            /\ UNCHANGED fr
       ELSE /\ pc' = [pc EXCEPT ![t] = "rd_closing"]
            /\ fr' = [fr EXCEPT ![t].val = r]
            /\ Log(t, <<EvAttr("read_ok", at, r), Ev("gatt_close")>>)
  /\ UNCHANGED <<hostVars, mgrVars, scanVars, envVars, hubVars, connected_devices, nOps>>

\* line 680: disconnect after a successful read; when it raises the inner
\* handler (683-686) disconnects again
read_closing(t) ==
  /\ pc[t] = "rd_closing"
  /\ \E out \in CloseOutcomes :
       /\ clients' \in CloseClient(fr[t].client, out)
       /\ IF out = "ok"
          THEN /\ Finish(t, RBytes(fr[t].val))
               /\ UNCHANGED calls
          ELSE /\ pc' = [pc EXCEPT ![t] = "rd_closing_err"]
               /\ Log(t, <<Ev("gatt_close")>>)
               /\ UNCHANGED fr
  /\ UNCHANGED <<sysLink, mgrVars, scanVars, envVars, hubVars, connected_devices, nOps>>

\* line 685: disconnect in the inner handler; when it raises the outer
\* handler (688-690) returns None
read_closing_err(t) ==
  /\ pc[t] = "rd_closing_err"
  /\ \E out \in CloseOutcomes : clients' \in CloseClient(fr[t].client, out)
  /\ Finish(t, RNone)
  /\ UNCHANGED <<sysLink, mgrVars, scanVars, envVars, hubVars, connected_devices, calls, nOps>>

(***************************************************************************)
(* write_gatt_characteristic                                               *)
(***************************************************************************)
WriteTarget_UuidOnly(uuid) == AttrUuid(uuid)

\* lines 734-740: digits only: the handle int(uuid); else the UUID string
WriteTarget(uuid) ==
  IF isdigit(uuid)
  THEN IF \A i \in 1..Len(uuid) : uuid[i] \in DecimalDigits
       THEN AttrHandle(IntOf(uuid)) ELSE AttrValueError
  ELSE AttrUuid(uuid)

\* how the accessory takes a write: it stores the value, it acknowledges
\* the write and holds a value of its own, or it rejects the write
WriteOutcomes == {"stored", "acknowledged", "rejected"}
\* an accessory whose characteristic keeps a value of its own
OwnValueOutcomes == {"acknowledged", "rejected"}

write_gatt_characteristic(t, address, uuid, data, name, ble, flag) ==
  /\ CanStart(t)
  /\ nOps' = nOps + 1
  /\ TeardownThenConnect(t,
       [NewFrame("write_gatt_characteristic", address, ble, flag, name)
          EXCEPT !.target = TargetAddress(address, ble), !.uuid = uuid,
                 !.data = data],
       <<>>, "wr_settling", "wr_connecting")
  /\ UNCHANGED <<mgrVars, scanVars, envVars, hubVars, connected_devices>>

write_settled(t) == Settled(t, "wr_settling", "wr_connecting")

write_connected(t) == TempConnected(t, "wr_connecting", "wr_io", RBool(FALSE))

\* lines 732-750
write_io(t, Outs) ==
  /\ pc[t] = "wr_io"
  /\ LET at == WriteTarget(fr[t].uuid)
         d == DevOf(fr[t].target) IN
     IF at = AttrValueError
     THEN /\ pc' = [pc EXCEPT ![t] = "wr_closing_err"]
          /\ Log(t, <<Ev("bad_handle"), Ev("gatt_close")>>)
          /\ UNCHANGED gatt_db
     ELSE \E out \in Outs :
       /\ pc' = [pc EXCEPT ![t] = IF out = "rejected" THEN "wr_closing_err"
                                  ELSE "wr_closing"]
       /\ gatt_db' = IF out = "stored"
                     THEN [gatt_db EXCEPT ![d][at] = fr[t].data]
                     ELSE IF out = "acknowledged"
                     THEN [gatt_db EXCEPT ![d][at] = Unset]
                     ELSE gatt_db
       /\ Log(t, <<EvAttr(IF out = "stored" THEN "write_ok"
                          ELSE IF out = "acknowledged" THEN "write_ack"
                          ELSE "write_rej", at, fr[t].data),
                   Ev("gatt_close")>>)
  /\ UNCHANGED <<hostVars, mgrVars, scanVars, proc, hubVars, connected_devices,
               fr, nOps>>

write_closing(t) ==
  /\ pc[t] = "wr_closing"
  /\ \E out \in CloseOutcomes :
       /\ clients' \in CloseClient(fr[t].client, out)
       /\ IF out = "ok"
          THEN /\ Finish(t, RBool(TRUE))
               /\ UNCHANGED calls
          ELSE /\ pc' = [pc EXCEPT ![t] = "wr_closing_err"]
               /\ Log(t, <<Ev("gatt_close")>>)
               /\ UNCHANGED fr
  /\ UNCHANGED <<sysLink, mgrVars, scanVars, envVars, hubVars, connected_devices, nOps>>

write_closing_err(t) ==
  /\ pc[t] = "wr_closing_err"
  /\ \E out \in CloseOutcomes : clients' \in CloseClient(fr[t].client, out)
  /\ Finish(t, RBool(FALSE))
  /\ UNCHANGED <<sysLink, mgrVars, scanVars, envVars, hubVars, connected_devices, calls, nOps>>

(***************************************************************************)
(* list_all_services_and_characteristics                                   *)
(***************************************************************************)
\* the next characteristic with the read property at or after (si, ci), in
\* the order of `for service in services: for char in service.characteristics`
RECURSIVE NextReadable(_, _, _)
NextReadable(S, si, ci) ==
  IF si > Len(S) THEN <<0, 0>>
  ELSE IF ci > Len(S[si].chars) THEN NextReadable(S, si + 1, 1)
  ELSE IF S[si].chars[ci].props = "read" THEN <<si, ci>>
  ELSE NextReadable(S, si, ci + 1)

list_all_services_and_characteristics(t, address, name, ble, flag) ==
  /\ CanStart(t)
  /\ nOps' = nOps + 1
  /\ TeardownThenConnect(t,
       [NewFrame("list_all_services_and_characteristics", address, ble, flag, name)
          EXCEPT !.target = TargetAddress(address, ble)],
       <<>>, "ls_settling", "ls_connecting")
  /\ UNCHANGED <<mgrVars, scanVars, envVars, hubVars, connected_devices>>

list_settled(t) == Settled(t, "ls_settling", "ls_connecting")

list_connected(t) == TempConnected(t, "ls_connecting", "ls_scan", RNone)

\* lines 788-824: every readable characteristic is read by handle, a failed
\* read is caught and reported; after the last one the session is closed
list_scan(t, LS) ==
  /\ pc[t] = "ls_scan"
  /\ \E L \in (IF fr[t].si = 0 THEN LS ELSE {fr[t].services}) :
       LET pos == IF fr[t].si = 0 THEN NextReadable(L, 1, 1)
                  ELSE NextReadable(L, fr[t].si, fr[t].ci)
       IN IF pos[1] = 0
          THEN /\ pc' = [pc EXCEPT ![t] = "ls_closing"]
               /\ fr' = [fr EXCEPT ![t].services = L]
               /\ Log(t, <<Ev("gatt_close")>>)
          ELSE /\ pc' = pc
               /\ fr' = [fr EXCEPT ![t].services = L, ![t].si = pos[1],
                                   ![t].ci = pos[2] + 1]
               /\ Log(t, <<EvRead("read", Handle(pos[1], pos[2]), <<>>)>>)
  /\ UNCHANGED <<hostVars, mgrVars, scanVars, envVars, hubVars, connected_devices, nOps>>

\* line 824: the disconnect; when it raises the handler (826-827) reports
list_closing(t) ==
  /\ pc[t] = "ls_closing"
  /\ \E out \in CloseOutcomes : clients' \in CloseClient(fr[t].client, out)
  /\ Finish(t, RNone)
  /\ UNCHANGED <<sysLink, mgrVars, scanVars, envVars, hubVars, connected_devices, calls, nOps>>

(***************************************************************************)
(* get_battery_level_direct                                                *)
(***************************************************************************)
\* get_system_battery_info: the host's battery table has a level for the
\* address ({v}) or not ({})
HostLevels == {0, 55, 100}
HostResults == {{}} \cup {{v} : v \in HostLevels}

\* the next characteristic the search reads, at or after (ph, si, ci):
\* pass 1 (lines 891-915) looks at the Battery Level characteristics of the
\* Battery Services, pass 2 (lines 918-928) at those of all services;
\* <<3, 0, 0>>: both passes are over
RECURSIVE NextCandidate(_, _, _, _)
NextCandidate(S, ph, si, ci) ==
  IF ph > 2 THEN <<3, 0, 0>>
  ELSE IF si > Len(S) THEN NextCandidate(S, ph + 1, 1, 1)
  ELSE IF ph = 1 /\ S[si].uuid # BATTERY_SERVICE_UUID
       THEN NextCandidate(S, ph, si + 1, 1)
  ELSE IF ci > Len(S[si].chars) THEN NextCandidate(S, ph, si + 1, 1)
  ELSE IF S[si].chars[ci].uuid = BATTERY_LEVEL_CHAR_UUID THEN <<ph, si, ci>>
  ELSE NextCandidate(S, ph, si, ci + 1)

\* battery_level = int(value[0])
BatteryLevel(value) == value[1]

\* mutant: the GATT path is taken although the host table has a value
get_battery_level_direct_GattFirst(t, address, name, ble, flag) ==
  /\ CanStart(t)
  /\ nOps' = nOps + 1
  /\ LET f == [NewFrame("get_battery_level_direct", address, ble, flag, name)
                 EXCEPT !.target = TargetAddress(address, ble)] IN
     \E host \in HostResults :
       TeardownThenConnect(t, f,
         IF host # {} THEN <<EvRead("host_hit", 0, <<CHOOSE v \in host : TRUE>>)>>
         ELSE <<Ev("host_miss")>>,
         "bat_settling", "bat_connecting")
  /\ UNCHANGED <<mgrVars, scanVars, envVars, hubVars, connected_devices>>

\* lines 841-871: the host table first; only without a value there the GATT
\* path starts
get_battery_level_direct(t, address, name, ble, flag) ==
  /\ CanStart(t)
  /\ nOps' = nOps + 1
  /\ LET f == [NewFrame("get_battery_level_direct", address, ble, flag, name)
                 EXCEPT !.target = TargetAddress(address, ble)] IN
     \E host \in HostResults :
       IF host # {}
       THEN /\ pc' = [pc EXCEPT ![t] = "done"]
            /\ fr' = [fr EXCEPT ![t] =
                        [f EXCEPT !.ret = RInt(CHOOSE v \in host : TRUE)]]
            /\ calls' = [calls EXCEPT ![t] =
                           <<EvRead("host_hit", 0, <<CHOOSE v \in host : TRUE>>)>>]
            /\ UNCHANGED <<sysLink, clients>>
       ELSE TeardownThenConnect(t, f, <<Ev("host_miss")>>,
                                "bat_settling", "bat_connecting")
  /\ UNCHANGED <<mgrVars, scanVars, envVars, hubVars, connected_devices>>

battery_settled(t) == Settled(t, "bat_settling", "bat_connecting")

battery_connected(t) == TempConnected(t, "bat_connecting", "bat_scan", RNone)

\* lines 888-932: the next candidate is read by handle.  A rejected read and
\* an empty payload (IndexError) are caught and the search goes on; with a
\* value the session is closed (911, 925) before the level is returned;
\* without a candidate left the session is closed (931) and None returned
battery_scan(t, LS) ==
  /\ pc[t] = "bat_scan"
  /\ \E L \in (IF fr[t].ph = 0 THEN LS ELSE {fr[t].services}) :
       LET pos == IF fr[t].ph = 0 THEN NextCandidate(L, 1, 1, 1)
                  ELSE NextCandidate(L, fr[t].ph, fr[t].si, fr[t].ci)
           g == [fr[t] EXCEPT !.services = L, !.ph = pos[1], !.si = pos[2],
                              !.ci = pos[3] + 1]
       IN IF pos[1] > 2
          THEN /\ pc' = [pc EXCEPT ![t] = "bat_final"]
               /\ fr' = [fr EXCEPT ![t] = g]
               /\ Log(t, <<Ev("gatt_close")>>)
          ELSE \E r \in ReadOutcomes :
                 IF r = Rejected \/ Len(r) = 0
                 THEN /\ pc' = pc
                      /\ fr' = [fr EXCEPT ![t] = g]
                      /\ Log(t, <<EvRead(IF r = Rejected THEN "read_rej" ELSE "read_empty",
                                         Handle(pos[2], pos[3]), <<>>)>>)
                 ELSE /\ pc' = [pc EXCEPT ![t] = "bat_closing"]
                      /\ fr' = [fr EXCEPT ![t] = [g EXCEPT !.val = r]]
                      /\ Log(t, <<EvRead("read_ok", Handle(pos[2], pos[3]), <<>>),
                                  Ev("gatt_close")>>)
  /\ UNCHANGED <<hostVars, mgrVars, scanVars, envVars, hubVars, connected_devices, nOps>>

\* lines 911-915 and 925-928: the disconnect before the return is inside the
\* try of the read: when it raises, the search goes on with the next candidate
battery_closing(t) ==
  /\ pc[t] = "bat_closing"
  /\ \E out \in CloseOutcomes :
       /\ clients' \in CloseClient(fr[t].client, out)
       /\ IF out = "ok"
          THEN /\ Finish(t, RInt(BatteryLevel(fr[t].val)))
               /\ UNCHANGED calls
          ELSE /\ pc' = [pc EXCEPT ![t] = "bat_scan"]
               /\ fr' = [fr EXCEPT ![t].val = <<>>]
               /\ Log(t, <<Ev("close_err")>>)
  /\ UNCHANGED <<sysLink, mgrVars, scanVars, envVars, hubVars, connected_devices, nOps>>

\* mutant: an exception of the disconnect after the search escapes the call
battery_final_Unhandled(t) ==
  /\ pc[t] = "bat_final"
  /\ \E out \in CloseOutcomes :
       /\ clients' \in CloseClient(fr[t].client, out)
       /\ Finish(t, IF out = "ok" THEN RNone ELSE RRaised)
  /\ UNCHANGED <<sysLink, mgrVars, scanVars, envVars, hubVars, connected_devices, calls, nOps>>

\* line 931: the disconnect after a search without result; when it raises
\* the handler (934-940) disconnects once more
battery_final(t) ==
  /\ pc[t] = "bat_final"
  /\ \E out \in CloseOutcomes :
       /\ clients' \in CloseClient(fr[t].client, out)
       /\ IF out = "ok"
          THEN /\ Finish(t, RNone)
               /\ UNCHANGED calls
          ELSE /\ pc' = [pc EXCEPT ![t] = "bat_final2"]
               /\ Log(t, <<Ev("close_err"), Ev("gatt_close")>>)
               /\ UNCHANGED fr
  /\ UNCHANGED <<sysLink, mgrVars, scanVars, envVars, hubVars, connected_devices, nOps>>

\* lines 936-940: the second disconnect is wrapped; None is returned
battery_final2(t) ==
  /\ pc[t] = "bat_final2"
  /\ \E out \in CloseOutcomes : clients' \in CloseClient(fr[t].client, out)
  /\ Finish(t, RNone)
  /\ UNCHANGED <<sysLink, mgrVars, scanVars, envVars, hubVars, connected_devices, calls, nOps>>

(***************************************************************************)
(* get_battery_level / get_all_battery_levels: the level is read through   *)
(* the cached session of the address                                       *)
(***************************************************************************)
\* the first Battery Service of the collection (lines 979-982), 0: none
RECURSIVE FirstBatteryService(_, _)
FirstBatteryService(S, si) ==
  IF si > Len(S) THEN 0
  ELSE IF S[si].uuid = BATTERY_SERVICE_UUID THEN si
  ELSE FirstBatteryService(S, si + 1)

\* the next Battery Level characteristic at or after (si, ci) in the
\* services si..last; <<0, 0>>: none
RECURSIVE LevelCharFrom(_, _, _, _)
LevelCharFrom(S, si, ci, last) ==
  IF si > last THEN <<0, 0>>
  ELSE IF ci > Len(S[si].chars) THEN LevelCharFrom(S, si + 1, 1, last)
  ELSE IF S[si].chars[ci].uuid = BATTERY_LEVEL_CHAR_UUID THEN <<si, ci>>
  ELSE LevelCharFrom(S, si, ci + 1, last)

\* get_battery_level has its result r.  Called by itself it returns r;
\* get_all_battery_levels drops r, sleeps and goes on with the next key
LevelResult(t, f, r, es) ==
  /\ calls' = [calls EXCEPT ![t] = es]
  /\ IF f.op = "get_all_battery_levels"
     THEN /\ pc' = [pc EXCEPT ![t] = "ga_next"]
          /\ fr' = [fr EXCEPT ![t] =
                      [f EXCEPT !.seen = f.seen \cup {f.target},
                                !.services = <<>>, !.si = 0, !.ci = 0,
                                !.client = 0]]
     ELSE /\ pc' = [pc EXCEPT ![t] = "done"]
          /\ fr' = [fr EXCEPT ![t] =
                      [IdleFrame EXCEPT !.op = f.op, !.address = f.address,
                                        !.target = f.target, !.ret = r]]

\* lines 956-1003 up to the first read: no entry or a closed session give
\* None; with a Battery Service (ph 1) its first Battery Level
\* characteristic is read, without one (ph 2) the first of all services
LevelSearch(t, f, LS, es) ==
  LET c == connected_clients[f.target] IN
  IF c = 0 \/ ~IsOpen(c)
  THEN LevelResult(t, f, RNone, es)
  ELSE \E L \in LS :
         LET b == FirstBatteryService(L, 1)
             pos == IF b # 0 THEN LevelCharFrom(L, b, 1, b)
                    ELSE LevelCharFrom(L, 1, 1, Len(L))
             g == [f EXCEPT !.services = L, !.client = c,
                            !.ph = IF b # 0 THEN 1 ELSE 2,
                            !.si = pos[1], !.ci = pos[2]]
         IN IF pos[1] = 0
            THEN LevelResult(t, f, RNone, es)
            ELSE /\ pc' = [pc EXCEPT ![t] = "gl_read"]
                 /\ fr' = [fr EXCEPT ![t] = g]
                 /\ calls' = [calls EXCEPT ![t] =
                                es \o <<EvRead("read", Handle(pos[1], pos[2]), <<>>)>>]

\* mutant: an entry whose session has dropped is removed on the way
get_battery_level_ForgetsStale(t, address, LS) ==
  /\ CanStart(t)
  /\ nOps' = nOps + 1
  /\ LevelSearch(t, [NewFrame("get_battery_level", address, NoAddr, FALSE, NoName)
                       EXCEPT !.target = address], LS, <<>>)
  /\ IF connected_clients[address] # 0 /\ ~IsOpen(connected_clients[address])
     THEN /\ connected_clients' = [connected_clients EXCEPT ![address] = 0]
          /\ device_names' = [device_names EXCEPT ![address] = NoName]
     ELSE UNCHANGED <<connected_clients, device_names>>
  /\ UNCHANGED <<hostVars, known_devices, known_devices_file, scanVars, envVars, hubVars,
               connected_devices>>

\* lines 946-1027
get_battery_level(t, address, LS) ==
  /\ CanStart(t)
  /\ nOps' = nOps + 1
  /\ LevelSearch(t, [NewFrame("get_battery_level", address, NoAddr, FALSE, NoName)
                       EXCEPT !.target = address], LS, <<>>)
  /\ UNCHANGED <<hostVars, mgrVars, scanVars, envVars, hubVars, connected_devices>>

\* the awaited read_gatt_char(char.uuid) is over (the log names the
\* characteristic by its position).  With a Battery Service (lines
\* 1000-1020) a value gives the level and a failure None; without one
\* (lines 987-997) a failure is reported and the next Battery Level
\* characteristic read.  An empty payload fails at value[0]
get_battery_level_read(t) ==
  /\ pc[t] = "gl_read"
  /\ \E r \in ReadOutcomes :
       LET f == fr[t] IN
       IF r # Rejected /\ Len(r) > 0
       THEN LevelResult(t, f, RInt(BatteryLevel(r)),
                        calls[t] \o <<EvRead("read_ok", Handle(f.si, f.ci), r)>>)
       ELSE LET es == calls[t] \o <<EvRead("read_rej", Handle(f.si, f.ci), <<>>)>>
                pos == LevelCharFrom(f.services, f.si, f.ci + 1, Len(f.services))
            IN IF f.ph = 1 \/ pos[1] = 0
               THEN LevelResult(t, f, RNone, es)
               ELSE /\ fr' = [fr EXCEPT ![t].si = pos[1], ![t].ci = pos[2]]
                    /\ calls' = [calls EXCEPT ![t] =
                                   es \o <<EvRead("read", Handle(pos[1], pos[2]), <<>>)>>]
                    /\ UNCHANGED pc
  /\ UNCHANGED <<hostVars, mgrVars, scanVars, envVars, hubVars, connected_devices, nOps>>

\* the keys of the session map
SessionKeys == {a \in GattAddrs : connected_clients[a] # 0}

\* lines 1029-1034: without a session nothing is done
get_all_battery_levels(t) ==
  /\ CanStart(t)
  /\ nOps' = nOps + 1
  /\ LET f == NewFrame("get_all_battery_levels", NoAddr, NoAddr, FALSE, NoName) IN
     IF SessionKeys = {}
     THEN /\ pc' = [pc EXCEPT ![t] = "done"]
          /\ fr' = [fr EXCEPT ![t] = f]
     ELSE /\ pc' = [pc EXCEPT ![t] = "ga_next"]
          /\ fr' = [fr EXCEPT ![t] = [f EXCEPT !.val = <<Cardinality(SessionKeys)>>]]
  /\ calls' = [calls EXCEPT ![t] = <<>>]
  /\ UNCHANGED <<hostVars, mgrVars, scanVars, envVars, hubVars, connected_devices>>

\* lines 1039-1041: the loop over connected_clients.keys() takes its next
\* key, at the start and after each sleep.  The iterator raises RuntimeError
\* when the map has changed its size meanwhile, and nothing catches it
get_all_battery_levels_next(t, LS) ==
  /\ pc[t] = "ga_next"
  /\ LET f == fr[t] IN
     IF Cardinality(SessionKeys) # f.val[1]
     THEN Finish(t, RRaised) /\ UNCHANGED calls
     ELSE IF SessionKeys \subseteq f.seen
     THEN Finish(t, RNone) /\ UNCHANGED calls
     ELSE \E a \in SessionKeys \ f.seen :
            LevelSearch(t, [f EXCEPT !.target = a], LS, calls[t])
  /\ UNCHANGED <<hostVars, mgrVars, scanVars, envVars, hubVars, connected_devices, nOps>>

(***************************************************************************)
(* The service layouts the runs use                                        *)
(***************************************************************************)
\* an accessory with the standard Battery Service and a write-only
\* characteristic in a second service
StandardLayout ==
  <<Svc(BATTERY_SERVICE_UUID, <<Chr(BATTERY_LEVEL_CHAR_UUID, "read")>>),
    Svc(OTHER_SERVICE_UUID, <<Chr(OTHER_CHAR_UUID, "write")>>)>>

\* every layout of at most MaxSvc services with at most MaxChars
\* characteristics in all: Battery Services and others, Battery Level
\* characteristics and others
CharKinds == {Chr(BATTERY_LEVEL_CHAR_UUID, "read"), Chr(OTHER_CHAR_UUID, "read")}
CharSeqs == UNION {[1..n -> CharKinds] : n \in 0..MaxChars}
ServiceShapes ==
  {Svc(u, cs) : u \in {BATTERY_SERVICE_UUID, OTHER_SERVICE_UUID}, cs \in CharSeqs}

RECURSIVE TotalChars(_, _)
TotalChars(S, si) ==
  IF si > Len(S) THEN 0 ELSE Len(S[si].chars) + TotalChars(S, si + 1)

Layouts ==
  {S \in UNION {[1..n -> ServiceShapes] : n \in 0..MaxSvc} :
     TotalChars(S, 1) <= MaxChars}

\* the layouts that tell the paths of get_battery_level apart: the Battery
\* Service, a Battery Level characteristic in another service, no such
\* characteristic, no service
LevelLayouts ==
  {StandardLayout,
   <<Svc(OTHER_SERVICE_UUID, <<Chr(BATTERY_LEVEL_CHAR_UUID, "read")>>)>>,
   <<Svc(OTHER_SERVICE_UUID, <<Chr(OTHER_CHAR_UUID, "read")>>)>>,
   <<>>}

(***************************************************************************)
(* BluetoothService.connect_to_device / disconnect_from_device: the        *)
(* blocking manager call runs on the default executor and the coroutine    *)
(* resumes with its result                                                 *)
(***************************************************************************)
\* lines 33-43: an address in the registry is refused, else the connect is
\* handed to the executor
connect_to_device(t, address, name) ==
  /\ CanStart(t)
  /\ nOps' = nOps + 1
  /\ LET f == NewFrame("connect_to_device", address, NoAddr, FALSE, name) IN
     IF address \in connected_devices
     THEN /\ pc' = [pc EXCEPT ![t] = "done"]
          /\ fr' = [fr EXCEPT ![t] = [f EXCEPT !.ret = RBool(FALSE)]]
          /\ calls' = [calls EXCEPT ![t] = <<>>]
     ELSE /\ pc' = [pc EXCEPT ![t] = "sc_exec"]
          /\ fr' = [fr EXCEPT ![t] = f]
          /\ calls' = [calls EXCEPT ![t] = <<Ev("executor")>>]
  /\ UNCHANGED <<hostVars, mgrVars, scanVars, envVars, hubVars, connected_devices>>

\* the worker thread runs repo.connect_device = manager.connect_device_system
connect_to_device_exec(t) ==
  /\ pc[t] = "sc_exec"
  /\ \E rc \in OsOutcomes, wr \in SaveOutcomes :
       /\ sysLink' = OsConnect(fr[t].address, rc)
       /\ known_devices' = KnownAfterConnect(fr[t].address, fr[t].name, rc)
       /\ known_devices_file' =
            IF rc = "ok"
            THEN save_known_devices(
                   KnownAfterConnect(fr[t].address, fr[t].name, rc), wr)
            ELSE known_devices_file
       /\ fr' = [fr EXCEPT ![t].ok = (rc = "ok")]
       /\ Log(t, ConnectCalls(rc, wr))
  /\ pc' = [pc EXCEPT ![t] = "sc_resume"]
  /\ UNCHANGED <<clients, connected_clients, device_names, connected_devices,
               nOps, scanVars, envVars, hubVars>>

\* mutant: the address is added whatever the connect has returned
connect_to_device_resume_AlwaysAdds(t) ==
  /\ pc[t] = "sc_resume"
  /\ connected_devices' = connected_devices \cup {fr[t].address}
  /\ Finish(t, RBool(fr[t].ok))
  /\ UNCHANGED <<hostVars, mgrVars, scanVars, envVars, hubVars, calls, nOps>>

\* lines 45-55: a successful connect adds the address to the registry
connect_to_device_resume(t) ==
  /\ pc[t] = "sc_resume"
  /\ connected_devices' = IF fr[t].ok THEN connected_devices \cup {fr[t].address}
                          ELSE connected_devices
  /\ Finish(t, RBool(fr[t].ok))
  /\ UNCHANGED <<hostVars, mgrVars, scanVars, envVars, hubVars, calls, nOps>>

\* lines 62-68
disconnect_from_device(t, address, name) ==
  /\ CanStart(t)
  /\ nOps' = nOps + 1
  /\ pc' = [pc EXCEPT ![t] = "sd_exec"]
  /\ fr' = [fr EXCEPT ![t] = NewFrame("disconnect_from_device", address, NoAddr, FALSE, name)]
  /\ calls' = [calls EXCEPT ![t] = <<Ev("executor")>>]
  /\ UNCHANGED <<hostVars, mgrVars, scanVars, envVars, hubVars, connected_devices>>

\* the worker thread runs repo.disconnect_device = manager.disconnect_device_system
disconnect_from_device_exec(t) ==
  /\ pc[t] = "sd_exec"
  /\ \E rc \in OsOutcomes :
       /\ sysLink' = OsDisconnect(fr[t].address, rc)
       /\ fr' = [fr EXCEPT ![t].ok = (rc = "ok")]
  /\ pc' = [pc EXCEPT ![t] = "sd_resume"]
  /\ Log(t, <<Ev("sys_disconnect")>>)
  /\ UNCHANGED <<clients, mgrVars, scanVars, envVars, hubVars, connected_devices, nOps>>

\* lines 70-74: a successful disconnect removes the address from the registry
disconnect_from_device_resume(t) ==
  /\ pc[t] = "sd_resume"
  /\ connected_devices' = IF fr[t].ok THEN connected_devices \ {fr[t].address}
                          ELSE connected_devices
  /\ Finish(t, RBool(fr[t].ok))
  /\ UNCHANGED <<hostVars, mgrVars, scanVars, envVars, hubVars, calls, nOps>>

(***************************************************************************)
(* BluetoothService.list_gatt_services with the repository's               *)
(* get_gatt_services_raw and read_characteristic_value                     *)
(***************************************************************************)
\* service lines 117-131: without a BLE address an error result; an address
\* in the registry is disconnected (repo.disconnect_device, called directly)
\* and the settle delay awaited; then get_gatt_services_raw connects
list_gatt_services(t, address, name, ble) ==
  /\ CanStart(t)
  /\ nOps' = nOps + 1
  /\ LET f == [NewFrame("list_gatt_services", address, ble,
                        address \in connected_devices, name)
                 EXCEPT !.target = ble] IN
     IF ble = NoAddr
     THEN /\ pc' = [pc EXCEPT ![t] = "done"]
          /\ fr' = [fr EXCEPT ![t] = [f EXCEPT !.ret = RError]]
          /\ calls' = [calls EXCEPT ![t] = <<>>]
          /\ UNCHANGED <<sysLink, clients>>
     ELSE TeardownThenConnect(t, f, <<>>, "sl_settling", "sl_connecting")
  /\ UNCHANGED <<mgrVars, scanVars, envVars, hubVars, connected_devices>>

list_gatt_services_settled(t) == Settled(t, "sl_settling", "sl_connecting")

\* repository lines 76-88: connected: the services are taken and the session
\* closed; not connected: disconnect and None; an exception: None.
\* service lines 133-137: None becomes the error result
get_gatt_services_raw_connected(t, LS) ==
  /\ pc[t] = "sl_connecting"
  /\ \E out \in ConnectOutcomes :
       IF out = "ok"
       THEN /\ clients' = [clients EXCEPT ![fr[t].client].open = TRUE]
            /\ pc' = [pc EXCEPT ![t] = "sl_raw_closing"]
            /\ \E L \in LS : fr' = [fr EXCEPT ![t].services = L]
            /\ Log(t, <<Ev("connected"), Ev("gatt_close")>>)
       ELSE IF out = "notconn"
       THEN /\ pc' = [pc EXCEPT ![t] = "sl_raw_notconn"]
            /\ Log(t, <<Ev("connect_failed"), Ev("gatt_close")>>)
            /\ UNCHANGED <<clients, fr>>
       ELSE /\ Finish(t, RError)
            /\ Log(t, <<Ev("connect_failed")>>)
            /\ UNCHANGED clients
  /\ UNCHANGED <<sysLink, mgrVars, scanVars, envVars, hubVars, connected_devices, nOps>>

\* repository lines 79-80 (and 86-88 when the disconnect raises)
get_gatt_services_raw_notconn(t) ==
  /\ pc[t] = "sl_raw_notconn"
  /\ \E out \in CloseOutcomes : clients' \in CloseClient(fr[t].client, out)
  /\ Finish(t, RError)
  /\ UNCHANGED <<sysLink, mgrVars, scanVars, envVars, hubVars, connected_devices, calls, nOps>>

\* _transform_gatt_services goes to the next characteristic with the read
\* property and read_characteristic_value connects a new client for it
\* (repository lines 96-97); after the last one the result is returned
TransformNext(t, f, es) ==
  LET pos == NextReadable(f.services, IF f.si = 0 THEN 1 ELSE f.si,
                                      IF f.si = 0 THEN 1 ELSE f.ci) IN
  IF pos[1] = 0
  THEN /\ pc' = [pc EXCEPT ![t] = "done"]
       /\ fr' = [fr EXCEPT ![t] =
                   [IdleFrame EXCEPT !.op = f.op, !.address = f.address,
                                     !.ble = f.ble, !.flag = f.flag,
                                     !.target = f.target, !.ret = RDict]]
       /\ calls' = [calls EXCEPT ![t] = es]
       /\ UNCHANGED clients
  ELSE OpenTemp(t, [f EXCEPT !.si = pos[1], !.ci = pos[2] + 1],
                "sl_rd_connecting",
                es \o <<EvRead("read_value", Handle(pos[1], pos[2]), <<>>)>>)

\* repository lines 83-88: the services are returned when the disconnect
\* completes, None when it raises
get_gatt_services_raw_closing(t) ==
  /\ pc[t] = "sl_raw_closing"
  /\ \E out \in CloseOutcomes :
       IF out = "ok"
       THEN \E cl \in CloseClient(fr[t].client, out) :
              LET f == fr[t] IN
              LET pos == NextReadable(f.services, 1, 1) IN
              IF pos[1] = 0
              THEN /\ clients' = cl
                   /\ Finish(t, RDict)
                   /\ UNCHANGED calls
              ELSE /\ Len(clients) < MaxClients
                   /\ clients' = Append(cl, [addr |-> f.target, open |-> FALSE])
                   /\ fr' = [fr EXCEPT ![t].client = Len(clients) + 1,
                                       ![t].si = pos[1], ![t].ci = pos[2] + 1]
                   /\ pc' = [pc EXCEPT ![t] = "sl_rd_connecting"]
                   /\ Log(t, <<EvRead("read_value", Handle(pos[1], pos[2]), <<>>),
                               Ev("gatt_connect")>>)
       ELSE /\ clients' \in CloseClient(fr[t].client, out)
            /\ Finish(t, RError)
            /\ UNCHANGED calls
  /\ UNCHANGED <<sysLink, mgrVars, scanVars, envVars, hubVars, connected_devices, nOps>>

\* repository lines 97-101
read_characteristic_value_connected(t) ==
  /\ pc[t] = "sl_rd_connecting"
  /\ \E out \in ConnectOutcomes :
       IF out = "ok"
       THEN /\ clients' = [clients EXCEPT ![fr[t].client].open = TRUE]
            /\ pc' = [pc EXCEPT ![t] = "sl_rd_io"]
            /\ Log(t, <<Ev("connected")>>)
            /\ UNCHANGED fr
       ELSE IF out = "notconn"
       THEN /\ pc' = [pc EXCEPT ![t] = "sl_rd_closing"]
            /\ Log(t, <<Ev("connect_failed"), Ev("gatt_close")>>)
            /\ UNCHANGED <<clients, fr>>
       ELSE /\ TransformNext(t, fr[t], calls[t] \o <<Ev("connect_failed")>>)
  /\ UNCHANGED <<sysLink, mgrVars, scanVars, envVars, hubVars, connected_devices, nOps>>

\* repository lines 103-109: the value is read and the session closed; when
\* the read raises, the handler returns None and no disconnect is issued
read_characteristic_value_io(t) ==
  /\ pc[t] = "sl_rd_io"
  /\ \E r \in ReadOutcomes :
       IF r = Rejected
       THEN TransformNext(t, fr[t], calls[t] \o <<Ev("read_rej")>>)
       ELSE /\ pc' = [pc EXCEPT ![t] = "sl_rd_closing"]
            /\ Log(t, <<Ev("read_ok"), Ev("gatt_close")>>)
            /\ UNCHANGED <<clients, fr>>
  /\ UNCHANGED <<sysLink, mgrVars, scanVars, envVars, hubVars, connected_devices, nOps>>

\* repository lines 100 and 104: the disconnect of read_characteristic_value;
\* then the transformation goes on with the next characteristic
read_characteristic_value_closing(t) ==
  /\ pc[t] = "sl_rd_closing"
  /\ \E out \in CloseOutcomes :
       \E cl \in CloseClient(fr[t].client, out) :
         LET f == fr[t] IN
         LET pos == NextReadable(f.services, f.si, f.ci) IN
         IF pos[1] = 0
         THEN /\ clients' = cl
              /\ Finish(t, RDict)
              /\ UNCHANGED calls
         ELSE /\ Len(clients) < MaxClients
              /\ clients' = Append(cl, [addr |-> f.target, open |-> FALSE])
              /\ fr' = [fr EXCEPT ![t].client = Len(clients) + 1,
                                  ![t].si = pos[1], ![t].ci = pos[2] + 1]
              /\ pc' = [pc EXCEPT ![t] = "sl_rd_connecting"]
              /\ Log(t, <<EvRead("read_value", Handle(pos[1], pos[2]), <<>>),
                          Ev("gatt_connect")>>)
  /\ UNCHANGED <<sysLink, mgrVars, scanVars, envVars, hubVars, connected_devices, nOps>>

(***************************************************************************)
(* Identity resolver: get_paired_devices, scan_ble_devices and             *)
(* scan_all_devices.  The records are dicts of strings; a key a dict does  *)
(* not have (or a None value) is Absent.                                   *)
(***************************************************************************)
MaxPaired == 2       \* lines `blueutil --paired` prints
MaxBle == 2          \* devices one BLE scan discovers

Absent == ""
ScanMacs == {"aa-01", "aa-02"}
\* addresses the scanner reports: host UUIDs, or the MAC a paired device has
ScanUuids == {"UUID-A", "UUID-B", "aa-01"}
PairedNames == {"Buds"}
BleNames == {"Buds", "BUDS"}
RSSI_THRESHOLD == -70
RssiValues == {RSSI_THRESHOLD, RSSI_THRESHOLD + 10}

\* str.lower() on the strings of the model
lower(s) ==
  CASE s \in {"Buds", "BUDS", "buds"} -> "buds"
    [] s = "Unknown" -> "unknown"
    [] s = "Unknown BLE Device" -> "unknown ble device"
    [] s = "UUID-A" -> "uuid-a"
    [] s = "UUID-B" -> "uuid-b"
    [] OTHER -> s

SeqsUpTo(S, n) == UNION {[1..k -> S] : k \in 0..n}

\* one line of `blueutil --paired`, split into its parts: the address part
\* and the name part may be missing
PairedLines ==
  [address : ScanMacs \cup {Absent}, name : PairedNames \cup {Absent},
   connected : BOOLEAN]

\* what the command answers: its lines with return code 0, or a failure
PairedOutputs ==
  {[rc |-> "ok", lines |-> l] : l \in SeqsUpTo(PairedLines, MaxPaired)}
    \cup {[rc |-> r, lines |-> <<>>] : r \in {"fail", "exc"}}

\* one entry of scanner.discovered_devices_and_advertisement_data
BleEntries ==
  [address : ScanUuids, name : BleNames \cup {Absent}, rssi : RssiValues]

\* the dict is keyed by address: no address occurs twice
DistinctAddresses(s) ==
  \A i, j \in 1..Len(s) : s[i].address = s[j].address => i = j

BleOutputs ==
  {[rc |-> "ok", discovered |-> l] :
     l \in {s \in SeqsUpTo(BleEntries, MaxBle) : DistinctAddresses(s)}}
    \cup {[rc |-> "exc", discovered |-> <<>>]}

\* the answers of the host in the runs of two passes: the lines and the
\* entries that make a record, with one value for the fields the merge does
\* not read, one spelling of a name and two scanner addresses
MaxPassLen == 2      \* lines, and devices discovered, in a pass of such a run
PassLines ==
  {ln \in PairedLines :
     ln.address # Absent /\ ln.name # Absent /\ ~ln.connected}
PassEntries ==
  {en \in BleEntries :
     en.rssi > RSSI_THRESHOLD /\ en.name # "BUDS" /\ en.address # "UUID-B"}
PassPairedOutputs ==
  {[rc |-> "ok", lines |-> l] : l \in SeqsUpTo(PassLines, MaxPassLen)}
PassBleOutputs ==
  {[rc |-> "ok", discovered |-> l] :
     l \in {s \in SeqsUpTo(PassEntries, MaxPassLen) : DistinctAddresses(s)}}

DeviceRecord(address, name, connected, type) ==
  [address |-> address, name |-> name, connected |-> connected,
   type |-> type, ble_address |-> Absent, ble_addresses_all |-> <<>>]

get_paired_devices_NoAddressGuard(out) ==
  IF out.rc = "ok"
  THEN [i \in 1..Len(out.lines) |->
          DeviceRecord(out.lines[i].address,
                       IF out.lines[i].name = Absent THEN "Unknown"
                       ELSE out.lines[i].name,
                       out.lines[i].connected, Absent)]
  ELSE <<>>

\* a line makes a record only if it has an address; the name defaults to
\* "Unknown"; a failed command gives the empty list
get_paired_devices(out) ==
  IF out.rc = "ok"
  THEN LET HasAddress(l) == l.address # Absent
           kept == SelectSeq(out.lines, HasAddress)
       IN [i \in 1..Len(kept) |->
             DeviceRecord(kept[i].address,
                          IF kept[i].name = Absent THEN "Unknown"
                          ELSE kept[i].name,
                          kept[i].connected, Absent)]
  ELSE <<>>

\* only the devices heard louder than the threshold are kept; a failed
\* scan gives the empty list
scan_ble_devices(out) ==
  IF out.rc = "ok"
  THEN LET Near(d) == d.rssi > RSSI_THRESHOLD
           kept == SelectSeq(out.discovered, Near)
       IN [i \in 1..Len(kept) |->
             DeviceRecord(kept[i].address,
                          IF kept[i].name = Absent THEN "Unknown BLE Device"
                          ELSE kept[i].name,
                          FALSE, "BLE")]
  ELSE <<>>

\* lines 224-235: the scanned devices of one lower-cased name, in scan order
ble_by_name(ble, name_key) ==
  LET SameName(b) == lower(b.name) = name_key
  IN SelectSeq(ble, SameName)

\* mutant: the names are compared as they are written
MatchByName_CaseSensitive(device, ble) ==
  LET SameName(b) == b.name = device.name
      ble_matches == SelectSeq(ble, SameName)
  IN IF Len(ble_matches) = 0 THEN device
     ELSE IF Len(ble_matches) = 1
          THEN [device EXCEPT !.ble_address = ble_matches[1].address]
          ELSE [device EXCEPT
                  !.ble_address = ble_matches[1].address,
                  !.ble_addresses_all =
                     [i \in 1..Len(ble_matches) |-> ble_matches[i].address]]

\* mutant: the last match is taken as the BLE address
MatchByName_LastMatch(device, ble) ==
  LET ble_matches == ble_by_name(ble, lower(device.name))
  IN IF Len(ble_matches) = 0 THEN device
     ELSE IF Len(ble_matches) = 1
          THEN [device EXCEPT !.ble_address = ble_matches[1].address]
          ELSE [device EXCEPT
                  !.ble_address = ble_matches[Len(ble_matches)].address,
                  !.ble_addresses_all =
                     [i \in 1..Len(ble_matches) |-> ble_matches[i].address]]

\* mutant: a device without a name match takes the sighting of its address
MatchByName_AddressFallback(device, ble) ==
  LET ble_matches == ble_by_name(ble, lower(device.name))
      SameAddress(b) == lower(b.address) = lower(device.address)
      by_address == SelectSeq(ble, SameAddress)
  IN IF Len(ble_matches) = 0
     THEN IF Len(by_address) = 0 THEN device
          ELSE [device EXCEPT !.ble_address = by_address[1].address]
     ELSE IF Len(ble_matches) = 1
          THEN [device EXCEPT !.ble_address = ble_matches[1].address]
          ELSE [device EXCEPT
                  !.ble_address = ble_matches[1].address,
                  !.ble_addresses_all =
                     [i \in 1..Len(ble_matches) |-> ble_matches[i].address]]

\* lines 242-263: a paired device takes the BLE address of the scanned
\* devices of its name
MatchByName(device, ble) ==
  LET ble_matches == ble_by_name(ble, lower(device.name))
  IN IF Len(ble_matches) = 0 THEN device
     ELSE IF Len(ble_matches) = 1
          THEN [device EXCEPT !.ble_address = ble_matches[1].address]
          ELSE [device EXCEPT
                  !.ble_address = ble_matches[1].address,
                  !.ble_addresses_all =
                     [i \in 1..Len(ble_matches) |-> ble_matches[i].address]]

\* mutant: the processed addresses are kept as they are written
processed_ble_addresses_NoLower(prd, ble) ==
  UNION {{ble_by_name(ble, lower(prd[i].name))[j].address :
            j \in 1..Len(ble_by_name(ble, lower(prd[i].name)))} :
         i \in 1..Len(prd)}

\* lines 238-258: the lower-cased addresses of the sightings the paired
\* devices took
processed_ble_addresses(prd, ble) ==
  UNION {{lower(ble_by_name(ble, lower(prd[i].name))[j].address) :
            j \in 1..Len(ble_by_name(ble, lower(prd[i].name)))} :
         i \in 1..Len(prd)}

\* mutant: nothing is returned when there is no paired device
MergeDevices_EarlyReturn(prd, ble) ==
  LET Unprocessed(b) ==
        lower(b.address) \notin processed_ble_addresses(prd, ble)
  IN IF prd = <<>> THEN <<>>
     ELSE [i \in 1..Len(prd) |-> MatchByName(prd[i], ble)]
            \o SelectSeq(ble, Unprocessed)

\* mutant: the sightings come first
MergeDevices_BleFirst(prd, ble) ==
  LET Unprocessed(b) ==
        lower(b.address) \notin processed_ble_addresses(prd, ble)
  IN SelectSeq(ble, Unprocessed)
       \o [i \in 1..Len(prd) |-> MatchByName(prd[i], ble)]

\* lines 220-271: the paired devices, matched, then the scanned devices
\* that no paired device took
MergeDevices(prd, ble) ==
  LET Unprocessed(b) ==
        lower(b.address) \notin processed_ble_addresses(prd, ble)
  IN [i \in 1..Len(prd) |-> MatchByName(prd[i], ble)]
       \o SelectSeq(ble, Unprocessed)

\* the indexes of the scanned devices no paired device took, in scan order
UnclaimedIndexes(prd, ble) ==
  LET Unprocessed(i) ==
        lower(ble[i].address) \notin processed_ble_addresses(prd, ble)
  IN SelectSeq([i \in 1..Len(ble) |-> i], Unprocessed)

(***************************************************************************)
(* The records are dict objects: a list holds references.  heap has every  *)
(* dict created so far; get_paired_devices and scan_ble_devices build new  *)
(* dicts on every call, scan_all_devices writes ble_address into the dicts *)
(* of its paired list and returns them with the dicts of the scan.         *)
(***************************************************************************)
NewObjects_Reuse(h, records) == [i \in 1..Len(records) |-> i]

\* the references of the dicts built for records
NewObjects(h, records) == [i \in 1..Len(records) |-> Len(h) + i]

\* the heap after records are written to the objects ids
Store(h, ids, records) ==
  LET top == IF Len(ids) = 0 THEN 0
             ELSE CHOOSE m \in {ids[i] : i \in 1..Len(ids)} :
                    \A i \in 1..Len(ids) : ids[i] <= m
      n == IF top > Len(h) THEN top ELSE Len(h)
  IN [k \in 1..n |->
        IF \E i \in 1..Len(ids) : ids[i] = k
        THEN records[CHOOSE i \in 1..Len(ids) :
                       ids[i] = k /\ \A j \in 1..Len(ids) : ids[j] = k => j <= i]
        ELSE h[k]]

\* lines 213-217: the paired list is read, then the BLE scan is awaited
scan_all_devices(PO) ==
  /\ proc = "running"
  /\ scan_pc = "idle"
  /\ \E out \in PO :
       LET records == get_paired_devices(out)
           ids == NewObjects(heap, records)
       IN /\ host_paired' = out
          /\ paired' = records
          /\ heap' = Store(heap, ids, records)
          /\ scan_ids' = [paired |-> ids, catalog |-> <<>>]
  /\ scan_pc' = "scanning"
  /\ UNCHANGED <<hostVars, mgrVars, envVars, hubVars, connected_devices, taskVars, ble_rc,
                 ble_devices, all_devices, first_pass>>

\* lines 177-201, 217: the scan is over and its list is handed to
\* scan_all_devices
scan_ble_devices_done(BO) ==
  /\ scan_pc = "scanning"
  /\ \E out \in BO :
       /\ ble_rc' = out.rc
       /\ ble_devices' = scan_ble_devices(out)
  /\ scan_pc' = "merging"
  /\ UNCHANGED <<hostVars, mgrVars, envVars, hubVars, connected_devices, taskVars, host_paired,
                 paired, all_devices, heap, scan_ids, first_pass>>

\* lines 218-271: the two lists are merged and returned
scan_all_devices_done ==
  /\ scan_pc = "merging"
  /\ LET bids == NewObjects(heap, ble_devices)
         h1 == Store(heap, bids, ble_devices)
         prd == [i \in 1..Len(scan_ids.paired) |-> h1[scan_ids.paired[i]]]
         idx == UnclaimedIndexes(prd, ble_devices)
     IN /\ heap' = Store(h1, scan_ids.paired,
                         [i \in 1..Len(prd) |-> MatchByName(prd[i], ble_devices)])
        /\ scan_ids' = [scan_ids EXCEPT
                          !.catalog = scan_ids.paired
                                        \o [j \in 1..Len(idx) |-> bids[idx[j]]]]
        /\ all_devices' = MergeDevices(prd, ble_devices)
  /\ scan_pc' = "done"
  /\ UNCHANGED <<hostVars, mgrVars, envVars, hubVars, connected_devices, taskVars, host_paired,
                 ble_rc, paired, ble_devices, first_pass>>

\* the caller takes the list and drops it
scan_return ==
  /\ scan_pc = "done"
  /\ scan_pc' = "idle"
  /\ host_paired' = [rc |-> "fail", lines |-> <<>>]
  /\ ble_rc' = "none"
  /\ paired' = <<>>
  /\ ble_devices' = <<>>
  /\ all_devices' = <<>>
  /\ heap' = <<>>
  /\ scan_ids' = [paired |-> <<>>, catalog |-> <<>>]
  /\ first_pass' = [n |-> 0, ids |-> <<>>, devices |-> <<>>, paired |-> <<>>,
                    ble |-> <<>>]
  /\ UNCHANGED <<hostVars, mgrVars, envVars, hubVars, connected_devices, taskVars>>

\* the caller takes the list of its first pass and keeps it
scan_keep ==
  /\ scan_pc = "done"
  /\ first_pass.n = 0
  /\ first_pass' = [n |-> 1, ids |-> scan_ids.catalog, devices |-> all_devices,
                    paired |-> paired, ble |-> ble_devices]
  /\ scan_pc' = "idle"
  /\ host_paired' = [rc |-> "fail", lines |-> <<>>]
  /\ ble_rc' = "none"
  /\ paired' = <<>>
  /\ ble_devices' = <<>>
  /\ all_devices' = <<>>
  /\ scan_ids' = [paired |-> <<>>, catalog |-> <<>>]
  /\ UNCHANGED <<hostVars, mgrVars, envVars, hubVars, connected_devices, taskVars, heap>>

(***************************************************************************)
(* BluetoothService.read_gatt_characteristic / write_gatt_characteristic   *)
(***************************************************************************)
\* str.startswith('0x')
StartsWith0x(s) == Len(s) >= 2 /\ s[1] = "0" /\ s[2] = "x"

DecodeHexData_KeepsPrefix(s) == fromhex(s, 1)

\* lines 94-100: the text after a leading '0x', or the whole text, goes to
\* bytes.fromhex; ok is false when that raises ValueError
DecodeHexData(s) ==
  IF StartsWith0x(s) THEN fromhex(SubSeq(s, 3, Len(s)), 1) ELSE fromhex(s, 1)

\* lines 78-85: is_connected is what the registry says, then the manager's
\* read runs; its result is turned into the hex string at lines 87-89
BluetoothService_read_gatt_characteristic(t, address, uuid, name, ble) ==
  /\ CanStart(t)
  /\ nOps' = nOps + 1
  /\ TeardownThenConnect(t,
       [NewFrame("read_gatt_characteristic", address, ble,
                 address \in connected_devices, name)
          EXCEPT !.target = TargetAddress(address, ble), !.uuid = uuid,
                 !.via = "service"],
       <<>>, "rd_settling", "rd_connecting")
  /\ UNCHANGED <<mgrVars, scanVars, envVars, hubVars, connected_devices>>

\* lines 94-110: the data is decoded first; ValueError leaves the call at
\* once, else the registry is asked and the manager's write runs on the bytes
BluetoothService_write_gatt_characteristic(t, address, uuid, hexdata, name, ble) ==
  /\ CanStart(t)
  /\ nOps' = nOps + 1
  /\ LET dec == DecodeHexData(hexdata)
         f == [NewFrame("write_gatt_characteristic", address, ble,
                        address \in connected_devices, name)
                 EXCEPT !.target = TargetAddress(address, ble), !.uuid = uuid,
                        !.hexdata = hexdata, !.via = "service"] IN
     IF ~dec.ok
     THEN /\ pc' = [pc EXCEPT ![t] = "done"]
          /\ fr' = [fr EXCEPT ![t] = [f EXCEPT !.flag = FALSE, !.target = NoAddr,
                                               !.ret = RInvalid, !.svc = RInvalid]]
          /\ calls' = [calls EXCEPT ![t] = <<>>]
          /\ UNCHANGED hostVars
     ELSE TeardownThenConnect(t, [f EXCEPT !.data = dec.bytes],
                              <<>>, "wr_settling", "wr_connecting")
  /\ UNCHANGED <<mgrVars, scanVars, envVars, hubVars, connected_devices>>

(***************************************************************************)
(* The HTTP routes of api/bluetooth.py: the route awaits the service call  *)
(* inside a try, raises HTTPException for a failure it detects, and its    *)
(* except clauses turn what the try has raised into the response status    *)
(***************************************************************************)
\* what the body of a try does: it returns the response, or an exception of
\* class cls leaves it (status is the status_code of an HTTPException)
Returned == [raised |-> FALSE, cls |-> "-", status |-> 200]
Raised(cls, status) == [raised |-> TRUE, cls |-> cls, status |-> status]

\* the route a service call is made by, and the value the route receives
RouteOf(f) ==
  CASE f.op = "connect_to_device" -> "connect_device"
    [] f.op = "disconnect_from_device" -> "disconnect_device"
    [] f.op = "list_gatt_services" -> "list_gatt_services"
    [] f.op = "read_gatt_characteristic" /\ f.via = "service" -> "read_gatt_characteristic"
    [] f.op = "write_gatt_characteristic" /\ f.via = "service" -> "write_gatt_characteristic"
    [] OTHER -> "none"

ServiceValue(f) ==
  IF f.op \in {"read_gatt_characteristic", "write_gatt_characteristic"}
  THEN f.svc ELSE f.ret

\* the try block of a route for the service's result r: lines 88-101,
\* 107-118, 133-144, 153-167, 174-188
RouteBody(route, r) ==
  IF r = RInvalid THEN Raised("ValueError", 0)
  ELSE IF r = RRaised THEN Raised("Exception", 0)
  ELSE IF route = "read_gatt_characteristic"
  THEN (IF r # RNone THEN Returned ELSE Raised("HTTPException", 404))
  ELSE IF route = "list_gatt_services"
  THEN (IF r # RNone THEN Returned ELSE Raised("HTTPException", 404))
  ELSE (IF r = RBool(TRUE) THEN Returned ELSE Raised("HTTPException", 400))

\* the except clauses of a route, in the order they are written
ExceptClauses(route) ==
  IF route = "write_gatt_characteristic"
  THEN <<[cls |-> "ValueError", status |-> 400],
         [cls |-> "Exception", status |-> 500]>>
  ELSE <<[cls |-> "Exception", status |-> 500]>>

\* isinstance: HTTPException and ValueError are subclasses of Exception
Catches(clause, exc) == clause.cls = "Exception" \/ clause.cls = exc.cls

\* the status of the response: 200 when the try returns; else the status of
\* the first except clause that catches what the try raised
RouteStatus(route, r) ==
  LET b == RouteBody(route, r)
      cs == ExceptClauses(route)
      hit == {i \in 1..Len(cs) : Catches(cs[i], b)}
  IN IF ~b.raised THEN 200
     ELSE IF hit = {} THEN b.status
     ELSE cs[CHOOSE i \in hit : \A j \in hit : i <= j].status

(***************************************************************************)
(* ConnectionManager and the endpoint /ws/windows                          *)
(***************************************************************************)
\* list.remove: the first occurrence goes
RECURSIVE RemoveFirst(_, _)
RemoveFirst(l, s) ==
  IF l = <<>> THEN <<>>
  ELSE IF Head(l) = s THEN Tail(l)
  ELSE <<Head(l)>> \o RemoveFirst(Tail(l), s)

InList(s) == \E i \in 1..Len(windows_clients) : windows_clients[i] = s

\* disconnect_windows, lines 26-29: the list after the call
ClientsAfterDisconnect(s) ==
  IF InList(s) THEN RemoveFirst(windows_clients, s) ELSE windows_clients

ConnectedAfterDisconnect_AlwaysClears(s) == FALSE

\* disconnect_windows, lines 30-31: the flag after the call
ConnectedAfterDisconnect(s) ==
  IF Len(ClientsAfterDisconnect(s)) = 0 THEN FALSE ELSE windows_connected

\* websocket.py line 21 with connect_windows, lines 22-25: the handshake is
\* accepted and the socket registered; when accept raises, the endpoint
\* ends before its try
websocket_windows_endpoint(s) ==
  /\ proc = "running"
  /\ ws[s].pc = "new"
  /\ \E accepted \in BOOLEAN :
       IF accepted
       THEN /\ windows_clients' = Append(windows_clients, s)
            /\ windows_connected' = TRUE
            /\ ws' = [ws EXCEPT ![s].pc = "open"]
       ELSE /\ ws' = [ws EXCEPT ![s].pc = "ended"]
            /\ UNCHANGED <<windows_clients, windows_connected>>
  /\ UNCHANGED <<hostVars, mgrVars, scanVars, envVars, connected_devices, taskVars,
               total_messages, action_mappings, confidence_threshold,
               mapper_out, nUpdates>>

\* process_prediction, lines 36-53, after total_messages was incremented:
\* the message's detected_action and confidence are read
Processed(m) == {"detected_action", "confidence"} \subseteq Attributes(m)

\* websocket.py lines 24-44, one turn of the loop: a message is received,
\* parsed, validated and processed and the response sent; WebSocketDisconnect
\* and every other exception end the loop with disconnect_windows
websocket_receive(s, m) ==
  /\ ws[s].pc = "open"
  /\ total_messages < MaxMsgs
  /\ IF SchemaValid(m)
     THEN /\ total_messages' = total_messages + 1
          /\ IF Processed(m)
             THEN /\ \E a \in DetectedActions, c \in Confidences :
                       mapper_out' =
                         [called |-> TRUE, action |-> a, confidence |-> c,
                          result |-> ProcessAndExecute(action_mappings,
                                       confidence_threshold, a, c)]
                  /\ ws' = [ws EXCEPT ![s].valid = @ + 1, ![s].sent = @ + 1,
                                      ![s].last = "valid"]
                  /\ UNCHANGED <<windows_clients, windows_connected>>
             ELSE /\ windows_clients' = ClientsAfterDisconnect(s)
                  /\ windows_connected' = ConnectedAfterDisconnect(s)
                  /\ ws' = [ws EXCEPT ![s].valid = @ + 1, ![s].pc = "ended",
                                      ![s].last = "valid"]
                  /\ UNCHANGED mapper_out
     ELSE /\ windows_clients' = ClientsAfterDisconnect(s)
          /\ windows_connected' = ConnectedAfterDisconnect(s)
          /\ ws' = [ws EXCEPT ![s].pc = "ended",
                              ![s].last = IF m = ClientGone THEN "disconnect"
                                          ELSE "invalid"]
          /\ UNCHANGED <<total_messages, mapper_out>>
  /\ UNCHANGED <<hostVars, mgrVars, scanVars, envVars, connected_devices, taskVars,
               action_mappings, confidence_threshold, nUpdates>>

\* disconnect_windows called for any socket, registered or not
disconnect_windows(s) ==
  /\ proc = "running"
  /\ windows_clients' = ClientsAfterDisconnect(s)
  /\ windows_connected' = ConnectedAfterDisconnect(s)
  /\ UNCHANGED <<hostVars, mgrVars, scanVars, envVars, connected_devices, taskVars,
               total_messages, ws, action_mappings, confidence_threshold,
               mapper_out, nUpdates>>

(***************************************************************************)
(* ActionMapper                                                            *)
(***************************************************************************)
process_and_execute(a, c) ==
  /\ proc = "running"
  /\ mapper_out' = [called |-> TRUE, action |-> a, confidence |-> c,
                    result |-> ProcessAndExecute(action_mappings,
                                                 confidence_threshold, a, c)]
  /\ UNCHANGED <<hostVars, mgrVars, scanVars, envVars, connected_devices, taskVars,
               windows_clients, windows_connected, total_messages, ws,
               action_mappings, confidence_threshold, nUpdates>>

\* update_mapping, lines 154-166: an unknown id changes nothing; an argument
\* that is None leaves its entry
update_mapping(id, sp, ph) ==
  /\ proc = "running"
  /\ nUpdates < MaxUpdates
  /\ nUpdates' = nUpdates + 1
  /\ action_mappings' =
       IF id \notin DOMAIN action_mappings THEN action_mappings
       ELSE [action_mappings EXCEPT
               ![id].speaker = IF sp # "None" THEN sp ELSE @,
               ![id].phone = IF ph # "None" THEN ph ELSE @]
  /\ UNCHANGED <<hostVars, mgrVars, scanVars, envVars, connected_devices, taskVars,
               windows_clients, windows_connected, total_messages, ws,
               confidence_threshold, mapper_out>>

\* update_confidence_threshold, line 176
update_confidence_threshold(th) ==
  /\ proc = "running"
  /\ nUpdates < MaxUpdates
  /\ nUpdates' = nUpdates + 1
  /\ confidence_threshold' = th
  /\ UNCHANGED <<hostVars, mgrVars, scanVars, envVars, connected_devices, taskVars,
               windows_clients, windows_connected, total_messages, ws,
               action_mappings, mapper_out>>

(***************************************************************************)
(* Specifications                                                          *)
(***************************************************************************)
\* no call is running and every result has been taken: the caller
\* serializes its calls
NoneRunning == \A u \in Tasks : pc[u] = "idle"

BleArgs == BleAddrs \cup {NoAddr}

\* every operation of the manager and of the service layer, called one
\* after the other
Next ==
  \/ \E t \in Tasks, a \in MacAddrs :
       NoneRunning /\ connect_device_system(t, a, DefaultName)
  \/ \E t \in Tasks, a \in MacAddrs :
       NoneRunning /\ disconnect_device_system(t, a, DefaultName)
  \/ \E t \in Tasks, a \in GattAddrs :
       NoneRunning /\ connect_device_gatt(t, a, DefaultName)
  \/ \E t \in Tasks : connect_device_gatt_done(t)
  \/ \E t \in Tasks, a \in GattAddrs :
       NoneRunning /\ disconnect_device_gatt(t, a)
  \/ \E t \in Tasks : disconnect_device_gatt_done(t)
  \/ \E t \in Tasks, a \in MacAddrs, b \in BleArgs, fl \in BOOLEAN :
       NoneRunning /\ read_gatt_characteristic(t, a, BatteryLevelId, DefaultName, b, fl)
  \/ \E t \in Tasks : read_settled(t)
  \/ \E t \in Tasks : read_connected(t)
  \/ \E t \in Tasks : read_io(t)
  \/ \E t \in Tasks : read_closing(t)
  \/ \E t \in Tasks : read_closing_err(t)
  \/ \E t \in Tasks, a \in MacAddrs, b \in BleArgs, fl \in BOOLEAN :
       NoneRunning /\ write_gatt_characteristic(t, a, BatteryLevelId, DefaultData, DefaultName, b, fl)
  \/ \E t \in Tasks : write_settled(t)
  \/ \E t \in Tasks : write_connected(t)
  \/ \E t \in Tasks : write_io(t, OwnValueOutcomes)
  \/ \E t \in Tasks : write_closing(t)
  \/ \E t \in Tasks : write_closing_err(t)
  \/ \E t \in Tasks, a \in MacAddrs, b \in BleArgs, fl \in BOOLEAN :
       NoneRunning /\ list_all_services_and_characteristics(t, a, DefaultName, b, fl)
  \/ \E t \in Tasks : list_settled(t)
  \/ \E t \in Tasks : list_connected(t)
  \/ \E t \in Tasks : list_scan(t, {StandardLayout})
  \/ \E t \in Tasks : list_closing(t)
  \/ \E t \in Tasks, a \in MacAddrs, b \in BleArgs, fl \in BOOLEAN :
       NoneRunning /\ get_battery_level_direct(t, a, DefaultName, b, fl)
  \/ \E t \in Tasks : battery_settled(t)
  \/ \E t \in Tasks : battery_connected(t)
  \/ \E t \in Tasks : battery_scan(t, {StandardLayout})
  \/ \E t \in Tasks : battery_closing(t)
  \/ \E t \in Tasks : battery_final(t)
  \/ \E t \in Tasks : battery_final2(t)
  \/ \E t \in Tasks, a \in GattAddrs :
       NoneRunning /\ get_battery_level(t, a, LevelLayouts)
  \/ \E t \in Tasks : get_battery_level_read(t)
  \/ \E t \in Tasks : NoneRunning /\ get_all_battery_levels(t)
  \/ \E t \in Tasks : get_all_battery_levels_next(t, {StandardLayout})
  \/ \E t \in Tasks, a \in MacAddrs :
       NoneRunning /\ connect_to_device(t, a, DefaultName)
  \/ \E t \in Tasks : connect_to_device_exec(t)
  \/ \E t \in Tasks : connect_to_device_resume(t)
  \/ \E t \in Tasks, a \in MacAddrs :
       NoneRunning /\ disconnect_from_device(t, a, DefaultName)
  \/ \E t \in Tasks : disconnect_from_device_exec(t)
  \/ \E t \in Tasks : disconnect_from_device_resume(t)
  \/ \E t \in Tasks, a \in MacAddrs, b \in BleArgs :
       NoneRunning /\ list_gatt_services(t, a, DefaultName, b)
  \/ \E t \in Tasks : list_gatt_services_settled(t)
  \/ \E t \in Tasks : get_gatt_services_raw_connected(t, {StandardLayout})
  \/ \E t \in Tasks : get_gatt_services_raw_notconn(t)
  \/ \E t \in Tasks : get_gatt_services_raw_closing(t)
  \/ \E t \in Tasks : read_characteristic_value_connected(t)
  \/ \E t \in Tasks : read_characteristic_value_io(t)
  \/ \E t \in Tasks : read_characteristic_value_closing(t)
  \/ \E t \in Tasks : Return(t)
  \/ \E c \in 1..MaxClients : Drop(c)

Spec == Init /\ [][Next]_vars

\* the session-map operations called concurrently, with no serialization
NextRace ==
  \/ \E t \in Tasks, a \in GattAddrs, n \in Names : connect_device_gatt(t, a, n)
  \/ \E t \in Tasks : connect_device_gatt_done(t)
  \/ \E t \in Tasks, a \in GattAddrs : disconnect_device_gatt(t, a)
  \/ \E t \in Tasks : disconnect_device_gatt_done(t)
  \/ \E t \in Tasks : Return(t)
  \/ \E c \in 1..MaxClients : Drop(c)

SpecRace == Init /\ [][NextRace]_vars

\* one call of get_battery_level_direct, against every service layout.  The
\* accessories are interchangeable: the call is made for the first one, with
\* no BLE address or the BLE address of any accessory
NextBattery ==
  \/ \E t \in Tasks, b \in BleArgs, fl \in BOOLEAN :
       nOps = 0 /\ get_battery_level_direct(t, Mac(1), DefaultName, b, fl)
  \/ \E t \in Tasks : battery_settled(t)
  \/ \E t \in Tasks : battery_connected(t)
  \/ \E t \in Tasks : battery_scan(t, Layouts)
  \/ \E t \in Tasks : battery_closing(t)
  \/ \E t \in Tasks : battery_final(t)
  \/ \E t \in Tasks : battery_final2(t)
  \/ \E t \in Tasks : Return(t)

SpecBattery == Init /\ [][NextBattery]_vars

\* scan_all_devices against every answer of the host and of the scanner
NextResolve ==
  \/ scan_all_devices(PairedOutputs)
  \/ scan_ble_devices_done(BleOutputs)
  \/ scan_all_devices_done
  \/ scan_return

SpecResolve == Init /\ [][NextResolve]_vars

\* two passes of scan_all_devices, the caller keeping the catalog of the first
NextPasses ==
  \/ scan_all_devices(PassPairedOutputs)
  \/ scan_ble_devices_done(PassBleOutputs)
  \/ scan_all_devices_done
  \/ scan_keep

SpecPasses == Init /\ [][NextPasses]_vars

\* the system link calls of the manager, beside cached GATT sessions
NextSystem ==
  \/ \E t \in Tasks, a \in MacAddrs, n \in Names : connect_device_system(t, a, n)
  \/ \E t \in Tasks, a \in MacAddrs, n \in Names : disconnect_device_system(t, a, n)
  \/ \E t \in Tasks, a \in GattAddrs, n \in Names : connect_device_gatt(t, a, n)
  \/ \E t \in Tasks : connect_device_gatt_done(t)
  \/ \E t \in Tasks : Return(t)

SpecSystem == Init /\ [][NextSystem]_vars

\* the process from its start: the construction of the manager, then the
\* system link calls
NextStartup ==
  \/ BluetoothHybridManager_init
  \/ \E t \in Tasks, a \in MacAddrs, n \in Names : connect_device_system(t, a, n)
  \/ \E t \in Tasks, a \in MacAddrs, n \in Names : disconnect_device_system(t, a, n)
  \/ \E t \in Tasks : Return(t)

SpecStartup == InitStartup /\ [][NextStartup]_vars

\* the payloads written
WritePayloads == {<<100>>, <<0>>, <<255>>}

\* no call is running: every task is free or holds the result of its call
AllSettled == \A u \in Tasks : pc[u] \in {"idle", "done"}

\* the task the next call runs on while the results of the calls before it
\* are kept: the lowest task that has not run a call
NextCaller(t) ==
  /\ AllSettled
  /\ pc[t] = "idle"
  /\ \A u \in Tasks : u < t => pc[u] = "done"

\* a write of one accessory by identifier and a read after it, or a read
\* alone, the result of each call kept
NextAccess ==
  \/ \E t \in Tasks, id \in Identifiers, fl \in BOOLEAN :
       /\ NextCaller(t)
       /\ nOps <= 1
       /\ read_gatt_characteristic(t, Mac(1), id, DefaultName, Ble(1), fl)
  \/ \E t \in Tasks : read_settled(t)
  \/ \E t \in Tasks : read_connected(t)
  \/ \E t \in Tasks : read_io(t)
  \/ \E t \in Tasks : read_closing(t)
  \/ \E t \in Tasks : read_closing_err(t)
  \/ \E t \in Tasks, id \in Identifiers, b \in WritePayloads, fl \in BOOLEAN :
       /\ NextCaller(t)
       /\ nOps = 0
       /\ write_gatt_characteristic(t, Mac(1), id, b, DefaultName, Ble(1), fl)
  \/ \E t \in Tasks : write_settled(t)
  \/ \E t \in Tasks : write_connected(t)
  \/ \E t \in Tasks : write_io(t, WriteOutcomes)
  \/ \E t \in Tasks : write_closing(t)
  \/ \E t \in Tasks : write_closing_err(t)

SpecAccess == Init /\ [][NextAccess]_vars

\* the data of the write requests: with and without the prefix, empty,
\* odd, no hex digit, an upper-case prefix, a blank before the byte
HexInputs ==
  {<<"6", "4">>, <<"0", "x", "6", "4">>, <<"0", "0", "C", "8">>,
   <<"0", "x", "0", "0", "C", "8">>, <<>>, <<"0", "x">>, <<"6">>,
   <<"0", "x", "6">>, <<"g", "4">>, <<"0", "x", "g", "4">>,
   <<"0", "X", "6", "4">>, <<" ", "6", "4">>}

\* the requests of the GATT endpoints, one call after the other, the result
\* of each call kept; a connect request may come first
NextService ==
  \/ \E t \in Tasks :
       NextCaller(t) /\ nOps = 0 /\ connect_to_device(t, Mac(1), DefaultName)
  \/ \E t \in Tasks : connect_to_device_exec(t)
  \/ \E t \in Tasks : connect_to_device_resume(t)
  \/ \E t \in Tasks :
       /\ NextCaller(t)
       /\ BluetoothService_read_gatt_characteristic(
            t, Mac(1), BatteryLevelId, DefaultName, Ble(1))
  \/ \E t \in Tasks : read_settled(t)
  \/ \E t \in Tasks : read_connected(t)
  \/ \E t \in Tasks : read_io(t)
  \/ \E t \in Tasks : read_closing(t)
  \/ \E t \in Tasks : read_closing_err(t)
  \/ \E t \in Tasks, h \in HexInputs :
       /\ NextCaller(t)
       /\ BluetoothService_write_gatt_characteristic(
            t, Mac(1), BatteryLevelId, h, DefaultName, Ble(1))
  \/ \E t \in Tasks : write_settled(t)
  \/ \E t \in Tasks : write_connected(t)
  \/ \E t \in Tasks : write_io(t, WriteOutcomes)
  \/ \E t \in Tasks : write_closing(t)
  \/ \E t \in Tasks : write_closing_err(t)

SpecService == Init /\ [][NextService]_vars

\* connect requests of the service layer handled concurrently: each request
\* is a coroutine that is suspended while the worker thread runs the connect
NextServiceRace ==
  \/ \E t \in Tasks, n \in Names : connect_to_device(t, Mac(1), n)
  \/ \E t \in Tasks : connect_to_device_exec(t)
  \/ \E t \in Tasks : connect_to_device_resume(t)

SpecServiceRace == Init /\ [][NextServiceRace]_vars

\* the hub's endpoint with its clients
NextHub ==
  \/ \E s \in Sockets : websocket_windows_endpoint(s)
  \/ \E s \in Sockets, m \in Incoming : websocket_receive(s, m)
  \/ \E s \in Sockets : disconnect_windows(s)

SpecHub == Init /\ [][NextHub]_vars

\* the action mapper, called with every input after its settings were
\* changed
NextMapper ==
  \/ \E a \in DetectedActions, c \in Confidences : process_and_execute(a, c)
  \/ \E id \in DetectedActions, sp \in SpeakerActions, ph \in PhoneActions :
       update_mapping(id, sp, ph)
  \/ \E th \in Thresholds : update_confidence_threshold(th)

SpecMapper == Init /\ [][NextMapper]_vars

(***************************************************************************)
(* Properties                                                              *)
(***************************************************************************)
GattOps ==
  {"read_gatt_characteristic", "write_gatt_characteristic",
   "list_all_services_and_characteristics", "get_battery_level_direct",
   "list_gatt_services"}

HasEv(t, e) == \E i \in 1..Len(calls[t]) : calls[t][i].e = e
CountEv(t, e) == Cardinality({i \in 1..Len(calls[t]) : calls[t][i].e = e})

OpenSessions(a) == {c \in 1..Len(clients) : clients[c].open /\ clients[c].addr = a}

\* C1: in every call of a GATT-using operation made for a device flagged
\* system-connected, each GATT connect is issued only after the system
\* disconnect was issued and the settle delay was over
C1_TeardownBeforeConnect ==
  \A t \in Tasks :
    (fr[t].op \in GattOps /\ fr[t].flag) =>
      \A i \in 1..Len(calls[t]) :
        calls[t][i].e = "gatt_connect" =>
          \E j \in 1..i, k \in 1..i :
            /\ j < k /\ k < i
            /\ calls[t][j].e = "sys_disconnect"
            /\ calls[t][k].e = "settle"

\* a flagged list_gatt_services has torn the system link down and has
\* connected twice: for the services and for a characteristic value
C1_Witness ==
  \E t \in Tasks :
    /\ fr[t].op = "list_gatt_services" /\ fr[t].flag
    /\ CountEv(t, "gatt_connect") = 2
    /\ CountEv(t, "sys_disconnect") = 1

\* C2: no device is system-connected while a GATT session to it is open
C2_SystemXorGatt ==
  \A d \in Dev :
    ~(sysLink[d] /\ \E c \in 1..Len(clients) :
                      clients[c].open /\ DevOf(clients[c].addr) = d)

\* C3: at most one GATT session is open per BLE address, cached and
\* temporary sessions together
C3_OneSessionPerAddress ==
  \A a \in BleAddrs : Cardinality(OpenSessions(a)) <= 1

\* C4: a connect_device_gatt call that finds a live cached session returns
\* true, issues no connect and leaves the session in the map; one that finds
\* a dead cached session removes the entry and issues exactly one connect
C4_SessionReuse ==
  [][\A t \in Tasks :
       (pc[t] = "idle" /\ pc'[t] # "idle" /\ fr'[t].op = "connect_device_gatt") =>
         LET a == fr'[t].address
             c == connected_clients[a]
         IN /\ (c # 0 /\ clients[c].open) =>
                 /\ pc'[t] = "done" /\ fr'[t].ret = RBool(TRUE)
                 /\ calls'[t] = <<>>
                 /\ clients' = clients
                 /\ connected_clients'[a] = c
            /\ (c # 0 /\ ~clients[c].open) =>
                 /\ connected_clients'[a] = 0
                 /\ device_names'[a] = NoName
                 /\ calls'[t] = <<Ev("gatt_connect")>>
                 /\ Len(clients') = Len(clients) + 1
                 /\ pc'[t] = "cg_connecting"]_vars

\* a call has returned true without a connect: the cached session was reused
C4_Witness ==
  \E t \in Tasks :
    /\ pc[t] = "done" /\ fr[t].op = "connect_device_gatt"
    /\ fr[t].ret = RBool(TRUE) /\ calls[t] = <<>>
    /\ IsOpen(connected_clients[fr[t].address])

\* C5: nothing holds a second caller back: while a connect for an address
\* is awaited, a free task can pass the cached-session check for the same
\* address and issue its own connect
C5_NoExclusion ==
  \A t \in Tasks, u \in Tasks :
    (pc[t] = "cg_connecting" /\ CanStart(u) /\ Len(clients) < MaxClients) =>
      ENABLED connect_device_gatt(u, fr[t].address, DefaultName)

\* two sessions for one address are open after two overlapping calls: the
\* map holds the one stored last, the other one is no longer referenced
C5_Witness ==
  \E a \in GattAddrs, c1 \in 1..Len(clients), c2 \in 1..Len(clients) :
    /\ c1 # c2
    /\ clients[c1].addr = a /\ clients[c2].addr = a
    /\ clients[c1].open /\ clients[c2].open
    /\ connected_clients[a] = c2
    /\ \A t \in Tasks : pc[t] = "done" /\ fr[t].op = "connect_device_gatt"
                        /\ fr[t].ret = RBool(TRUE) /\ CountEv(t, "gatt_connect") = 1

IsBatteryCall(t) == fr[t].op = "get_battery_level_direct"

IsReadEv(ev) == ev.e \in {"read_rej", "read_empty", "read_ok"}
ReadEvents(t) == SelectSeq(calls[t], IsReadEv)

\* C6: when the host table has a level for the address, get_battery_level_direct
\* returns exactly that level and issues neither a system disconnect nor a
\* GATT connect, whatever the BLE address and the system-connected flag are
C6_HostValueNoGatt ==
  \A t \in Tasks :
    (IsBatteryCall(t) /\ HasEv(t, "host_hit")) =>
      /\ pc[t] = "done"
      /\ calls[t][1].e = "host_hit"
      /\ fr[t].ret = RInt(calls[t][1].p[1])
      /\ Len(calls[t]) = 1
      /\ fr[t].client = 0

\* the host value was returned for a device flagged connected with a BLE address
C6_Witness ==
  \E t \in Tasks :
    /\ IsBatteryCall(t) /\ pc[t] = "done" /\ HasEv(t, "host_hit")
    /\ fr[t].flag /\ fr[t].ble # NoAddr /\ fr[t].ret = RInt(55)

\* C7: without a host value, a failed GATT fallback (connect failed or not
\* connected, no matching characteristic, every read rejected) returns None,
\* and no exception escapes get_battery_level_direct
C7_FallbackFailureIsNone ==
  \A t \in Tasks :
    (IsBatteryCall(t) /\ pc[t] = "done") =>
      /\ fr[t].ret.k # "raised"
      /\ ( /\ HasEv(t, "host_miss")
           /\ \/ HasEv(t, "connect_failed")
              \/ /\ HasEv(t, "connected")
                 /\ \A i \in 1..Len(ReadEvents(t)) : ReadEvents(t)[i].e = "read_rej" )
         => fr[t].ret = RNone

\* every candidate of a two-candidate search was rejected, the disconnect
\* after the search raised, and None was returned
C7_Witness ==
  \E t \in Tasks :
    /\ IsBatteryCall(t) /\ pc[t] = "done" /\ fr[t].ret = RNone
    /\ CountEv(t, "read_rej") = 2 /\ Len(ReadEvents(t)) = 2
    /\ HasEv(t, "close_err")

\* C8: every level get_battery_level_direct returns is between 0 and 100
C8_LevelInRange ==
  \A t \in Tasks :
    (IsBatteryCall(t) /\ pc[t] = "done" /\ fr[t].ret.k = "int") =>
      (fr[t].ret.i >= 0 /\ fr[t].ret.i <= 100)

\* the characteristics in enumeration order
RECURSIVE CharsFrom(_, _)
CharsFrom(S, si) ==
  IF si > Len(S) THEN <<>>
  ELSE [ci \in 1..Len(S[si].chars) |-> <<si, ci>>] \o CharsFrom(S, si + 1)

\* the order the search is to try the candidates in: the Battery Level
\* characteristics of the Battery Services, then those of all services
ClaimedOrder(S) ==
  LET IsLevel(q) == S[q[1]].chars[q[2]].uuid = BATTERY_LEVEL_CHAR_UUID
      InBattery(q) == IsLevel(q) /\ S[q[1]].uuid = BATTERY_SERVICE_UUID
  IN SelectSeq(CharsFrom(S, 1), InBattery) \o SelectSeq(CharsFrom(S, 1), IsLevel)

\* C9: the reads follow the claimed order, the level returned is the value
\* of the first candidate whose read succeeded, and a search that returns
\* None has tried every candidate
C9_FirstReadableWins ==
  \A t \in Tasks :
    (IsBatteryCall(t) /\ pc[t] = "done" /\ HasEv(t, "connected")) =>
      LET R == ReadEvents(t)
          order == ClaimedOrder(fr[t].services)
      IN /\ Len(R) <= Len(order)
         /\ \A i \in 1..Len(R) : R[i].h = Handle(order[i][1], order[i][2])
         /\ fr[t].ret.k = "int" =>
              /\ Len(R) > 0 /\ R[Len(R)].e = "read_ok"
              /\ \A i \in 1..(Len(R) - 1) : R[i].e # "read_ok"
              /\ fr[t].ret.i = fr[t].val[1]
         /\ fr[t].ret.k = "none" => Len(R) = Len(order)

\* C10: every record of the list scan_all_devices returns carries an
\* address: a system address, or a BLE address (in its address or its
\* ble_address field)
C10_EveryRecordHasAddress ==
  scan_pc = "done" =>
    \A i \in 1..Len(all_devices) :
      all_devices[i].address # Absent \/ all_devices[i].ble_address # Absent

\* a scan is over whose paired list had a line without address, and whose
\* result holds a paired device and a device only the BLE scan saw
C10_Witness ==
  /\ scan_pc = "done"
  /\ \E i \in 1..Len(host_paired.lines) : host_paired.lines[i].address = Absent
  /\ \E i \in 1..Len(all_devices) : all_devices[i].type = "BLE"
  /\ \E i \in 1..Len(all_devices) : all_devices[i].type = Absent

\* the sightings of the scan list whose name is n, ignoring case
SightingsNamed(n) ==
  {k \in 1..Len(ble_devices) : lower(ble_devices[k].name) = lower(n)}
PairedNamed(n) == {i \in 1..Len(paired) : lower(paired[i].name) = lower(n)}
\* the position of an address in the scan list
ScanPos(a) == CHOOSE k \in 1..Len(ble_devices) : ble_devices[k].address = a
Standalone(a) ==
  {j \in 1..Len(all_devices) :
     all_devices[j].type = "BLE" /\ all_devices[j].address = a}

\* C11: a paired device whose name occurs once among the paired devices and
\* once among the sightings, ignoring case, keeps its system address and has
\* the address of that sighting as ble_address
C11_UniqueNameMatch ==
  scan_pc = "done" =>
    \A i \in 1..Len(paired) :
      ( /\ Cardinality(PairedNamed(paired[i].name)) = 1
        /\ Cardinality(SightingsNamed(paired[i].name)) = 1 ) =>
        /\ all_devices[i].address = paired[i].address
        /\ \A k \in SightingsNamed(paired[i].name) :
             all_devices[i].ble_address = ble_devices[k].address

\* a paired "Buds" has taken the address of the only sighting, named "BUDS"
C11_Witness ==
  /\ scan_pc = "done"
  /\ \E i \in 1..Len(paired), k \in 1..Len(ble_devices) :
       /\ paired[i].name = "Buds" /\ ble_devices[k].name = "BUDS"
       /\ Cardinality(PairedNamed("Buds")) = 1
       /\ SightingsNamed("Buds") = {k}
       /\ all_devices[i].ble_address = ble_devices[k].address

\* C12: a paired device whose name matches two or more sightings lists their
\* addresses in scan order in ble_addresses_all, and ble_address is the first
\* element of ble_addresses_all in every record that has the list
C12_MultiMatchList ==
  scan_pc = "done" =>
    /\ \A i \in 1..Len(paired) :
         LET M == SightingsNamed(paired[i].name)
             all == all_devices[i].ble_addresses_all
         IN Cardinality(M) >= 2 =>
              /\ Len(all) = Cardinality(M)
              /\ {all[x] : x \in 1..Len(all)} = {ble_devices[k].address : k \in M}
              /\ \A x, y \in 1..Len(all) : x < y => ScanPos(all[x]) < ScanPos(all[y])
              /\ all_devices[i].ble_address = all[1]
    /\ \A j \in 1..Len(all_devices) :
         all_devices[j].ble_addresses_all # <<>> =>
           all_devices[j].ble_address = all_devices[j].ble_addresses_all[1]

\* a paired device has a list of two addresses
C12_Witness ==
  /\ scan_pc = "done"
  /\ \E i \in 1..Len(paired) :
       /\ Cardinality(SightingsNamed(paired[i].name)) = 2
       /\ Len(all_devices[i].ble_addresses_all) = 2

\* C13: a sighting whose name matches no paired device is emitted once as a
\* BLE-only record, a sighting a paired device took is not emitted on its own
C13_UnclaimedStandalone ==
  scan_pc = "done" =>
    \A k \in 1..Len(ble_devices) :
      IF PairedNamed(ble_devices[k].name) = {}
      THEN /\ Cardinality(Standalone(ble_devices[k].address)) = 1
           /\ \A j \in Standalone(ble_devices[k].address) :
                all_devices[j] = ble_devices[k]
      ELSE Standalone(ble_devices[k].address) = {}

\* of two sightings one was taken by a paired device and one stands alone
C13_Witness ==
  /\ scan_pc = "done"
  /\ \E k1, k2 \in 1..Len(ble_devices) :
       /\ PairedNamed(ble_devices[k1].name) # {}
       /\ ble_devices[k1].address = "UUID-A"
       /\ PairedNamed(ble_devices[k2].name) = {}
       /\ Standalone(ble_devices[k2].address) # {}

\* C14: a paired device has a BLE address exactly when a sighting has its
\* name, ignoring case; a sighting that has its address but another name is
\* not attached to it
C14_NameMatchOnly ==
  scan_pc = "done" =>
    \A i \in 1..Len(paired) :
      /\ all_devices[i].ble_address # Absent
           <=> SightingsNamed(paired[i].name) # {}
      /\ SightingsNamed(paired[i].name) = {} =>
           all_devices[i] = paired[i]
      /\ \A k \in 1..Len(ble_devices) :
           ( /\ ble_devices[k].address = paired[i].address
             /\ k \notin SightingsNamed(paired[i].name) ) =>
             /\ all_devices[i].ble_address # ble_devices[k].address
             /\ \A x \in 1..Len(all_devices[i].ble_addresses_all) :
                  all_devices[i].ble_addresses_all[x] # ble_devices[k].address

\* a sighting has the address of a paired device and another name: the
\* paired device has no BLE address and the sighting stands alone
C14_Witness ==
  /\ scan_pc = "done"
  /\ \E i \in 1..Len(paired), k \in 1..Len(ble_devices) :
       /\ ble_devices[k].address = paired[i].address
       /\ k \notin SightingsNamed(paired[i].name)
       /\ all_devices[i].ble_address = Absent
       /\ Standalone(ble_devices[k].address) # {}

\* C16: a failed or empty paired query leaves exactly the sightings, as
\* BLE-only records; a failed or empty scan leaves exactly the paired
\* devices, without BLE address; with both absent the catalog is empty
C16_AbsentSourceShorterCatalog ==
  scan_pc = "done" =>
    /\ host_paired.rc # "ok" => paired = <<>>
    /\ ble_rc # "ok" => ble_devices = <<>>
    /\ paired = <<>> => all_devices = ble_devices
    /\ ble_devices = <<>> => all_devices = paired
    /\ \A j \in 1..Len(all_devices) :
         /\ paired = <<>> => all_devices[j].type = "BLE"
         /\ ble_devices = <<>> => all_devices[j].ble_address = Absent

\* the paired query failed and the catalog is the two sightings of the scan
C16_Witness ==
  /\ scan_pc = "done"
  /\ host_paired.rc = "exc"
  /\ Len(ble_devices) = 2 /\ Len(all_devices) = 2

\* C15: the catalog holds the paired devices in the order of the paired
\* list, then the sightings no paired device took in scan order, and a pass
\* on the lists of an earlier pass returns the catalog that pass returned
C15_DeterministicOrder ==
  scan_pc = "done" =>
    LET np == Len(paired)
        rest == (np + 1)..Len(all_devices)
    IN /\ Len(all_devices) >= np
       /\ \A i \in 1..np :
            /\ all_devices[i].address = paired[i].address
            /\ all_devices[i].name = paired[i].name
            /\ all_devices[i].type = Absent
       /\ \A j \in rest :
            /\ all_devices[j].type = "BLE"
            /\ \E k \in 1..Len(ble_devices) : ble_devices[k] = all_devices[j]
       /\ \A j1, j2 \in rest :
            j1 < j2 => ScanPos(all_devices[j1].address)
                         < ScanPos(all_devices[j2].address)
       /\ ( /\ first_pass.n = 1
            /\ first_pass.paired = paired
            /\ first_pass.ble = ble_devices )
            => all_devices = first_pass.devices

\* the second pass had the lists of the first and returned its catalog: a
\* paired device and two sightings that stand alone
C15_Witness ==
  /\ scan_pc = "done"
  /\ first_pass.n = 1
  /\ first_pass.paired = paired /\ first_pass.ble = ble_devices
  /\ Len(paired) = 1 /\ Len(all_devices) = 3

\* C17: the records of the catalog an earlier pass returned keep the values
\* they were returned with, while and after a later pass runs
C17_EarlierCatalogUntouched ==
  first_pass.n = 1 =>
    \A i \in 1..Len(first_pass.ids) :
      heap[first_pass.ids[i]] = first_pass.devices[i]

\* the first pass returned a paired device without BLE address; the second
\* pass has written a BLE address into its own record of that device
C17_Witness ==
  /\ scan_pc = "done"
  /\ first_pass.n = 1
  /\ \E i \in 1..Len(first_pass.devices), j \in 1..Len(all_devices) :
       /\ first_pass.devices[i].type = Absent
       /\ first_pass.devices[i].ble_address = Absent
       /\ all_devices[j].address = first_pass.devices[i].address
       /\ all_devices[j].type = Absent
       /\ all_devices[j].ble_address # Absent


\* the step in which task t completes a call of operation o
Completes(t, o) ==
  /\ pc[t] # "done"
  /\ pc'[t] = "done"
  /\ fr'[t].op = o

\* C18: when connect_device_system(address, name) returns true, the
\* known-devices map holds name at address, whatever name it held before,
\* and the map has been written through within the call: the save is among
\* the calls made, and a save that went well leaves the file equal to the map.
C18_KnownDeviceWrittenThrough ==
  [][\A t \in Tasks :
       (Completes(t, "connect_device_system") /\ fr'[t].ret = RBool(TRUE))
         => /\ known_devices'[fr'[t].address] = fr'[t].name
            /\ \E i \in 1..Len(calls'[t]) : calls'[t][i] = Ev("save")
            /\ (\E i \in 1..Len(calls'[t]) : calls'[t][i] = Ev("save_ok"))
                 => known_devices_file' = known_devices']_vars

\* a call has returned true for an address whose earlier name it has
\* replaced, in the map and in the file
C18_Witness ==
  \E t, u \in Tasks :
    /\ t # u
    /\ pc[t] = "done" /\ pc[u] = "done"
    /\ fr[t].op = "connect_device_system" /\ fr[u].op = "connect_device_system"
    /\ fr[t].ret = RBool(TRUE) /\ fr[u].ret = RBool(TRUE)
    /\ fr[t].address = fr[u].address
    /\ fr[t].name # fr[u].name
    /\ HasEv(u, "save_ok")
    /\ known_devices[fr[u].address] = fr[u].name
    /\ known_devices_file = known_devices

\* C19: a connect_device_system whose command exits with a non-zero code,
\* times out or raises returns false, and a call that returns false leaves
\* the known-devices map, its file, the session map and the device-name map
\* as they were.
C19_FailedConnectLeavesMaps ==
  [][\A t \in Tasks :
       Completes(t, "connect_device_system")
         => /\ (\E i \in 1..Len(calls'[t]) :
                   calls'[t][i] \in {Ev("os_fail"), Ev("os_exc")})
                 => fr'[t].ret = RBool(FALSE)
            /\ fr'[t].ret = RBool(FALSE)
                 => /\ known_devices' = known_devices
                    /\ known_devices_file' = known_devices_file
                    /\ connected_clients' = connected_clients
                    /\ device_names' = device_names]_vars

\* a call has failed on a raised command while a session is cached, and its
\* name is not on record for the address
C19_Witness ==
  \E t \in Tasks :
    /\ pc[t] = "done"
    /\ fr[t].op = "connect_device_system"
    /\ fr[t].ret = RBool(FALSE)
    /\ HasEv(t, "os_exc")
    /\ known_devices[fr[t].address] # fr[t].name
    /\ \E a \in GattAddrs : connected_clients[a] # 0

\* C20: disconnect_device_system returns a boolean, true exactly when the
\* command has exited with 0, with or without a link beforehand; it changes
\* no map of the manager and no session, and on an address without a link
\* it leaves the links as they were.
C20_DisconnectSystemIdempotent ==
  [][\A t \in Tasks :
       Completes(t, "disconnect_device_system")
         => /\ fr'[t].ret \in {RBool(TRUE), RBool(FALSE)}
            /\ (fr'[t].ret = RBool(TRUE))
                 <=> (\E i \in 1..Len(calls'[t]) : calls'[t][i] = Ev("os_ok"))
            /\ UNCHANGED <<mgrVars, clients, connected_devices>>
            /\ ~sysLink[DevOf(fr'[t].address)] => sysLink' = sysLink]_vars

\* a disconnect has returned true on an address that has no link and was
\* never connected
C20_Witness ==
  \E t \in Tasks :
    /\ pc[t] = "done"
    /\ fr[t].op = "disconnect_device_system"
    /\ fr[t].ret = RBool(TRUE)
    /\ known_devices[fr[t].address] = NoName
    /\ ~sysLink[DevOf(fr[t].address)]

\* C21: a call that needs a BLE address and is made without one issues no
\* system disconnect and no GATT connect: it has returned at once, with the
\* "no BLE address" result, which no transport failure produces.  (A battery
\* call the host table answers needs no BLE address.)
C21_NoBleAddressFailsFast ==
  \A t \in Tasks :
    (fr[t].op \in GattOps /\ fr[t].ble = NoAddr /\ pc[t] # "idle")
      => /\ ~HasEv(t, "sys_disconnect")
         /\ ~HasEv(t, "gatt_connect")
         /\ pc[t] = "done"
         /\ fr[t].ret = RError \/ fr[t].ret.k = "int"

\* C22: a GATT connect that times out or fails, and a read or a write the
\* device rejects, end in the failure result and never in an exception:
\* connect_device_gatt returns False with no entry for the address in the
\* session map, a read returns None, a write returns False.
C22_TransportFailureIsNormal ==
  \A t \in Tasks :
    pc[t] = "done" =>
      /\ (fr[t].op = "connect_device_gatt" /\ HasEv(t, "connect_failed"))
           => /\ fr[t].ret = RBool(FALSE)
              /\ connected_clients[fr[t].address] = 0
              /\ device_names[fr[t].address] = NoName
      /\ (/\ fr[t].op = "read_gatt_characteristic"
          /\ HasEv(t, "connect_failed") \/ HasEv(t, "read_rej"))
           => fr[t].ret = RNone
      /\ (/\ fr[t].op = "write_gatt_characteristic"
          /\ HasEv(t, "connect_failed") \/ HasEv(t, "write_rej"))
           => fr[t].ret = RBool(FALSE)
      /\ fr[t].op \in {"connect_device_gatt", "read_gatt_characteristic",
                       "write_gatt_characteristic"}
           => fr[t].ret # RRaised

\* a connect for an address that had a client before has failed
C22_Witness ==
  \E t \in Tasks :
    /\ pc[t] = "done"
    /\ fr[t].op = "connect_device_gatt"
    /\ HasEv(t, "connect_failed")
    /\ fr[t].ret = RBool(FALSE)
    /\ \E c \in 1..Len(clients) :
         c < Len(clients) /\ clients[c].addr = fr[t].address

\* C24: a call that has opened GATT sessions of its own has closed each of
\* them when it returns, whatever the return path.  A session counts as
\* closed here as soon as its disconnect has been issued, so a disconnect
\* that itself fails is not held against the call.
C24_OwnSessionClosed ==
  \A t \in Tasks :
    (pc[t] = "done" /\ fr[t].op \in GattOps)
      => CountEv(t, "connected") <= CountEv(t, "gatt_close")

\* the operations that run as coroutines on the event loop
AsyncOps ==
  GattOps \cup {"connect_to_device", "disconnect_from_device",
                "connect_device_gatt", "disconnect_device_gatt"}

\* C29: in the log of a coroutine every system connect or disconnect comes
\* right after a hand-over to the worker pool: the command never runs on the
\* event loop's thread.
C29_OsCommandsOnWorkerPool ==
  \A t \in Tasks :
    fr[t].op \in AsyncOps =>
      \A i \in 1..Len(calls[t]) :
        calls[t][i].e \in {"sys_connect", "sys_disconnect"}
          => i > 1 /\ calls[t][i - 1].e = "executor"

\* the operations that only borrow a session
BorrowingOps ==
  {"read_gatt_characteristic", "write_gatt_characteristic",
   "list_all_services_and_characteristics", "get_battery_level_direct",
   "get_battery_level", "get_all_battery_levels"}

\* task t takes a step of a call of one of the operations in O
StepOf(t, O) ==
  /\ pc'[t] # pc[t] \/ fr'[t] # fr[t] \/ calls'[t] # calls[t]
  /\ (IF pc[t] = "idle" THEN fr'[t].op ELSE fr[t].op) \in O

\* C25: no step of read, write, service listing, get_battery_level_direct,
\* get_battery_level or get_all_battery_levels changes the session map or
\* the device-name map.
C25_OnlyOrchestratorEditsSessions ==
  [][\A t \in Tasks :
       StepOf(t, BorrowingOps)
         => /\ connected_clients' = connected_clients
            /\ device_names' = device_names]_vars

\* get_battery_level has found the cached session of its address dropped
\* and the entry is still in the map
C25_Witness ==
  \E t \in Tasks :
    /\ pc[t] = "done"
    /\ fr[t].op = "get_battery_level"
    /\ fr[t].ret = RNone
    /\ connected_clients[fr[t].address] # 0
    /\ ~IsOpen(connected_clients[fr[t].address])
    /\ device_names[fr[t].address] # NoName

\* C28: no failure ends the process, and no call ends in an exception: the
\* caller gets a result, the construction of the manager on a host that
\* lacks a tool included.
C28_NoFatalFailure ==
  /\ proc # "exited"
  /\ \A t \in Tasks : pc[t] = "done" => fr[t].ret # RRaised

(***************************************************************************)
(* C23: in read and write, an identifier of decimal digits only is         *)
(* addressed as the handle with that integer value and every other         *)
(* identifier is passed on unchanged as a UUID string, by the same rule in *)
(* both.  Stated of every call that came to the point of addressing the    *)
(* characteristic.  The code asks str.isdigit, which also accepts digits   *)
(* int() refuses (U+00B2): for such an identifier ValueError is raised and *)
(* caught, nothing is addressed and the call answers None or False.        *)
(***************************************************************************)
AllDecimal(s) == Len(s) > 0 /\ \A i \in 1..Len(s) : s[i] \in DecimalDigits

ResolutionRule(s) == IF AllDecimal(s) THEN AttrHandle(IntOf(s)) ELSE AttrUuid(s)

IsAccessEv(ev) ==
  ev.e \in {"read_ok", "read_rej", "write_ok", "write_ack", "write_rej",
            "bad_handle"}

C23_IdentifierResolution ==
  \A t \in Tasks :
    fr[t].op \in {"read_gatt_characteristic", "write_gatt_characteristic"} =>
      \A i \in 1..Len(calls[t]) :
        IsAccessEv(calls[t][i]) => calls[t][i].at = ResolutionRule(fr[t].uuid)

(***************************************************************************)
(* C26: round trip.  When the accessory has stored the payload b a write   *)
(* sent to an identifier, and the next call reads the same identifier of   *)
(* the same accessory and gets a payload, that payload is b; for b = 0x64  *)
(* it decodes to the battery value 100.                                    *)
(***************************************************************************)
StoredWrite(w) ==
  /\ pc[w] = "done"
  /\ fr[w].op = "write_gatt_characteristic"
  /\ HasEv(w, "write_ok")

ReadBack(w, r) ==
  /\ StoredWrite(w)
  /\ r = w + 1
  /\ pc[r] = "done"
  /\ fr[r].op = "read_gatt_characteristic"
  /\ fr[r].uuid = fr[w].uuid
  /\ DevOf(fr[r].target) = DevOf(fr[w].target)
  /\ fr[r].ret.k = "bytes"

C26_WriteThenReadRoundTrip ==
  \A w \in Tasks, r \in Tasks :
    ReadBack(w, r) =>
      /\ fr[r].ret.p = fr[w].data
      /\ fr[w].data = <<100>> => fr[r].ret.p[1] = 100

C26_Witness ==
  \E w \in Tasks, r \in Tasks :
    /\ ReadBack(w, r)
    /\ fr[w].data = <<100>>
    /\ fr[r].ret = RBytes(<<100>>)
    /\ AllDecimal(fr[w].uuid)

(***************************************************************************)
(* C27: BluetoothService.write_gatt_characteristic decodes the data with   *)
(* and without a leading '0x' to the same bytes and hands the manager      *)
(* bytes only; data that is no hex text ends the call with a validation    *)
(* error before a system disconnect, a GATT connect or a write is issued.  *)
(***************************************************************************)
IsServiceWrite(t) ==
  /\ pc[t] # "idle"
  /\ fr[t].op = "write_gatt_characteristic"
  /\ fr[t].via = "service"

\* the text after an optional leading '0x'
Digits(s) == IF StartsWith0x(s) THEN SubSeq(s, 3, Len(s)) ELSE s

\* hex text without blanks: pairs of hex digits
PlainHex(s) ==
  /\ Len(s) % 2 = 0
  /\ \A i \in 1..Len(s) : s[i] \in HexDigits

HasBlank(s) == \E i \in 1..Len(s) : s[i] = " "

Refused(t) == pc[t] = "done" /\ fr[t].svc = RInvalid

C27_HexDecodedByService ==
  /\ \A t \in Tasks :
       IsServiceWrite(t) =>
         \* the manager was given bytes
         /\ \A i \in 1..Len(fr[t].data) : fr[t].data[i] \in 0..255
         \* a refused request has issued nothing
         /\ Refused(t) => calls[t] = <<>> /\ fr[t].data = <<>>
         \* text without blanks is refused exactly when it is no hex text,
         \* and else the bytes spell its digits
         /\ ~HasBlank(fr[t].hexdata) =>
              /\ Refused(t) <=> ~PlainHex(Digits(fr[t].hexdata))
              /\ ~Refused(t) =>
                   /\ Len(fr[t].data) * 2 = Len(Digits(fr[t].hexdata))
                   /\ \A i \in 1..Len(Digits(fr[t].hexdata)) :
                        hex(fr[t].data)[i] = HexValue(Digits(fr[t].hexdata)[i])
  /\ \A t \in Tasks, u \in Tasks :
       \* the same text with and without the prefix
       IsServiceWrite(t) /\ IsServiceWrite(u)
         /\ fr[t].hexdata = <<"0", "x">> \o fr[u].hexdata =>
           /\ Refused(t) <=> Refused(u)
           /\ fr[t].data = fr[u].data

C27_Witness ==
  \E t \in Tasks, u \in Tasks :
    /\ IsServiceWrite(t) /\ IsServiceWrite(u)
    /\ pc[t] = "done" /\ pc[u] = "done"
    /\ fr[u].hexdata = <<"6", "4">>
    /\ fr[t].hexdata = <<"0", "x", "6", "4">>
    /\ fr[u].data = <<100>> /\ fr[t].data = <<100>>
    /\ HasEv(u, "write_ok") /\ HasEv(t, "write_ok")

(***************************************************************************)
(* C30: for every successful GATT read, whatever the payload p, the empty  *)
(* one included, the service layer reports success and exposes p as a hex  *)
(* string of 2 * |p| digits.  Stated of the read requests served through   *)
(* BluetoothService.read_gatt_characteristic.  The code tests `if data:`,  *)
(* which is false for b'': the successful read of an empty value is        *)
(* answered None, and the endpoint reports that the data cannot be read.   *)
(***************************************************************************)
IsServiceRead(t) ==
  /\ pc[t] = "done"
  /\ fr[t].op = "read_gatt_characteristic"
  /\ fr[t].via = "service"

C30_ReadPayloadExposed ==
  \A t \in Tasks :
    IsServiceRead(t) /\ fr[t].ret.k = "bytes" =>
      /\ fr[t].svc.k = "hex"
      /\ Len(fr[t].svc.p) = 2 * Len(fr[t].ret.p)
      /\ \A i \in 1..Len(fr[t].ret.p) :
           /\ fr[t].ret.p[i] \in 0..255
           /\ 16 * fr[t].svc.p[2 * i - 1] + fr[t].svc.p[2 * i] = fr[t].ret.p[i]

(***************************************************************************)
(* C31: the registry of BluetoothService.  connect_to_device of an address *)
(* in the registry answers failure and issues no system connect; a         *)
(* successful connect adds the address and a failed one leaves the         *)
(* registry as it is; a successful disconnect_from_device removes the      *)
(* address and a failed one leaves the registry as it is.                  *)
(***************************************************************************)
RegistryOps == {"connect_to_device", "disconnect_from_device"}

\* task t starts a call of operation o / the call of operation o returns
Starts(t, o) == pc[t] = "idle" /\ pc'[t] # "idle" /\ fr'[t].op = o
Returns(t, o) == pc[t] \notin {"idle", "done"} /\ pc'[t] = "done" /\ fr[t].op = o

C31_RegistryBookkeeping ==
  [][\A t \in Tasks :
       /\ Starts(t, "connect_to_device") /\ fr'[t].address \in connected_devices
            => /\ pc'[t] = "done"
               /\ fr'[t].ret = RBool(FALSE)
               /\ calls'[t] = <<>>
               /\ sysLink' = sysLink
               /\ connected_devices' = connected_devices
       /\ Returns(t, "connect_to_device")
            => connected_devices' =
                 IF fr'[t].ret = RBool(TRUE)
                 THEN connected_devices \cup {fr[t].address}
                 ELSE connected_devices
       /\ Returns(t, "disconnect_from_device")
            => connected_devices' =
                 IF fr'[t].ret = RBool(TRUE)
                 THEN connected_devices \ {fr[t].address}
                 ELSE connected_devices
       /\ StepOf(t, RegistryOps) /\ pc'[t] # "done"
            => connected_devices' = connected_devices]_vars

\* a connect request for an address in the registry has been refused
C31_Witness ==
  \E t \in Tasks :
    /\ pc[t] = "done"
    /\ fr[t].op = "connect_to_device"
    /\ fr[t].ret = RBool(FALSE)
    /\ calls[t] = <<>>
    /\ fr[t].address \in connected_devices

(***************************************************************************)
(* C32: with concurrent connect requests for one address the check of the  *)
(* registry lets the system connect be made at most once for the address   *)
(* and lets at most one request report success.  The check (line 33) and the   *)
(* registration (line 52) are separated by the await of the executor: two  *)
(* requests that both pass the check both run the connect and both report  *)
(* success.                                                                *)
(***************************************************************************)
IsConnectRequest(t) == pc[t] # "idle" /\ fr[t].op = "connect_to_device"

C32_ConnectOncePerAddress ==
  \A t \in Tasks, u \in Tasks :
    t # u /\ IsConnectRequest(t) /\ IsConnectRequest(u)
      /\ fr[t].address = fr[u].address =>
        /\ ~(HasEv(t, "os_ok") /\ HasEv(u, "os_ok"))
        /\ ~(pc[t] = "done" /\ fr[t].ret = RBool(TRUE)
               /\ pc[u] = "done" /\ fr[u].ret = RBool(TRUE))

(***************************************************************************)
(* C33: the registry follows the system link.  When a GATT read or write   *)
(* of the service layer has taken the system link of its address down, the *)
(* address is out of the registry once the request has returned.  The      *)
(* teardown is made with the registry's answer (lines 78 and 102) and      *)
(* nothing removes the address: the registry still names a device whose    *)
(* link is down.                                                           *)
(***************************************************************************)
TornDown(t) ==
  /\ pc[t] = "done"
  /\ fr[t].via = "service"
  /\ HasEv(t, "sys_disconnect")
  /\ ~sysLink[DevOf(fr[t].address)]

C33_RegistryTracksLink ==
  \A t \in Tasks : TornDown(t) => fr[t].address \notin connected_devices

(***************************************************************************)
(* C34: in the teardown before a GATT session the result of the system     *)
(* disconnect is not looked at: every call that has issued the disconnect  *)
(* for a device flagged system-connected and has returned has waited and   *)
(* attempted the GATT connect, with the link down or still up; and no      *)
(* step of such an operation brings a system link up again.                *)
(***************************************************************************)
C34_TeardownResultIgnored ==
  /\ [](\A t \in Tasks :
          pc[t] = "done" /\ fr[t].op \in GattOps
            /\ HasEv(t, "sys_disconnect") =>
              /\ fr[t].flag
              /\ HasEv(t, "settle")
              /\ HasEv(t, "gatt_connect")
              /\ ~HasEv(t, "sys_connect"))
  /\ [][\A t \in Tasks :
          StepOf(t, GattOps) => \A d \in Dev : sysLink'[d] => sysLink[d]]_vars

\* the disconnect has failed, the link is still up, and the GATT connect
\* has been attempted all the same
C34_Witness ==
  \E t \in Tasks :
    /\ pc[t] = "done"
    /\ fr[t].op = "read_gatt_characteristic" /\ fr[t].flag
    /\ sysLink[DevOf(fr[t].address)]
    /\ HasEv(t, "sys_disconnect")
    /\ HasEv(t, "gatt_connect")

(***************************************************************************)
(* C35: through calls of connect_device_gatt and disconnect_device_gatt    *)
(* made one after the other, connected_clients and device_names have the   *)
(* same addresses as keys; when disconnect_device_gatt(address) has        *)
(* returned, the address is in neither map, also when the transport        *)
(* disconnect has raised; without an entry the call changes nothing.       *)
(***************************************************************************)
SameKeys ==
  \A a \in GattAddrs : connected_clients[a] # 0 <=> device_names[a] # NoName

C35_SessionMapsInStep ==
  /\ [](/\ SameKeys
        /\ \A t \in Tasks :
             pc[t] = "done" /\ fr[t].op = "disconnect_device_gatt" =>
               /\ fr[t].ret = RNone
               /\ connected_clients[fr[t].address] = 0
               /\ device_names[fr[t].address] = NoName)
  /\ [][\A t \in Tasks :
          Starts(t, "disconnect_device_gatt")
            /\ connected_clients[fr'[t].address] = 0 =>
              /\ pc'[t] = "done"
              /\ calls'[t] = <<>>
              /\ UNCHANGED <<clients, connected_clients, device_names>>]_vars

\* the transport disconnect has raised: the session is still open and the
\* address is out of both maps
C35_Witness ==
  \E t \in Tasks :
    /\ pc[t] = "done"
    /\ fr[t].op = "disconnect_device_gatt"
    /\ HasEv(t, "gatt_close")
    /\ OpenSessions(fr[t].address) # {}
    /\ connected_clients[fr[t].address] = 0
    /\ device_names[fr[t].address] = NoName

(***************************************************************************)
(* C36: a route answers a failure of its service call with the client      *)
(* error its handler raises for it: 400 for a connect or write that failed *)
(* or was refused, 404 for a characteristic that could not be read; 200    *)
(* for a success; 500 for nothing the service returns.  The HTTPException  *)
(* is raised inside the try whose `except Exception` clause follows:       *)
(* HTTPException is an Exception, the clause catches it and the response   *)
(* is 500.                                                                 *)
(***************************************************************************)
Answered(t) == pc[t] = "done" /\ RouteOf(fr[t]) # "none"

ClaimedStatus(route, r) ==
  IF route = "read_gatt_characteristic"
  THEN (IF r.k = "hex" THEN 200 ELSE 404)
  ELSE (IF r = RBool(TRUE) THEN 200 ELSE 400)

C36_ClientErrorStatus ==
  \A t \in Tasks :
    Answered(t) =>
      RouteStatus(RouteOf(fr[t]), ServiceValue(fr[t]))
        = ClaimedStatus(RouteOf(fr[t]), ServiceValue(fr[t]))


\* C38: after any sequence of connect_windows and disconnect_windows calls
\* windows_connected is true exactly when windows_clients is not empty, and
\* a disconnect_windows for a socket that is not in the list, made by the
\* endpoint of that socket when it ends, leaves the list and the flag as
\* they were.
EndsUnregistered(s) ==
  ws[s].pc = "open" /\ ws'[s].pc = "ended" /\ ~InList(s)

C38_ConnectedIffClients ==
  /\ [](windows_connected <=> (windows_clients # <<>>))
  /\ [][\A s \in Sockets :
          EndsUnregistered(s) =>
            /\ windows_clients' = windows_clients
            /\ windows_connected' = windows_connected]_vars

C38_Witness ==
  \E s \in Sockets, o \in Sockets :
    /\ s # o
    /\ ws[s].pc = "ended"
    /\ ws[s].last # "-"
    /\ ws[o].pc = "open"
    /\ InList(o)
    /\ windows_connected

\* C37: every schema-valid prediction message received on /ws/windows is
\* counted once, answered with one 'processed' response, and leaves the
\* client connected for the next message.
C37_ValidMessageProcessed ==
  \A s \in Sockets :
    /\ ws[s].sent = ws[s].valid
    /\ (ws[s].last = "valid" => ws[s].pc = "open")


\* C39: process_and_execute returns the empty list when the confidence is
\* below the threshold or the id has no mapping; otherwise 'speaker:<action>'
\* when a speaker action is mapped, then 'phone:<action>' when a phone action
\* is mapped; it changes neither the mappings nor the threshold.
ClaimedActions(a, c) ==
  IF c < confidence_threshold \/ a \notin DOMAIN action_mappings THEN <<>>
  ELSE LET sp == action_mappings[a].speaker
           ph == action_mappings[a].phone
           S == IF Truthy(sp) THEN <<<<"speaker", sp>>>> ELSE <<>>
           P == IF Truthy(ph) THEN <<<<"phone", ph>>>> ELSE <<>>
       IN  S \o P

C39_ActionsTaken ==
  [][mapper_out' # mapper_out =>
       /\ mapper_out'.result = ClaimedActions(mapper_out'.action,
                                               mapper_out'.confidence)
       /\ action_mappings' = action_mappings
       /\ confidence_threshold' = confidence_threshold]_vars

C39_Witness ==
  /\ mapper_out.called
  /\ Len(mapper_out.result) = 2
  /\ action_mappings # DefaultMappings

====
